---- MODULE Spec2Model ----
(***************************************************************************)
(* The iterative research workflow of deep-research:                       *)
(*   process_query (02_app/main.py) drives ResearchWorkflow.run_iteration  *)
(*   (02_app/_core/workflow.py), whose stages are create_queries,          *)
(*   execute_searches, check_relevance, analyze_documents and              *)
(*   reflect_task_status (02_app/_core/llm_processing.py, search.py).      *)
(* One behaviour is one run of process_query.  The answers of the LLM      *)
(* provider and of the search index are the nondeterministic inputs.       *)
(***************************************************************************)
EXTENDS Integers, Sequences, FiniteSets, TLC

VARIABLES
    iterative_workflow,        \* ResearchWorkflow.iterative_workflow (checkbox)
    max_iterations,            \* config["app"]["max_iterations"]
    previous_queries,          \* self.previous_queries
    previous_chunk_ids,        \* self.previous_chunk_ids
    previous_doc_ids,          \* self.previous_doc_ids
    previous_considerations,   \* self.previous_considerations
    previous_analysis_results, \* self.previous_analysis_results
    final_docs,                \* self.final_docs (None or a frame of rows)
    loop_idx,                  \* loop variable of process_query = iteration
    pc,                        \* position in process_query / run_iteration
    search_queries,            \* local of run_iteration
    search_results,            \* local of run_iteration
    relevant_doc_ids,          \* local of run_iteration
    analysis_results,          \* local of run_iteration
    relevance_checks,          \* local of run_iteration, dead after line 95
    relevance_answers,         \* history: the provider's answers to this iteration's relevance calls
    returned_passages,         \* history: what execute_searches just returned
    finished,                  \* first component returned by run_iteration
    exit_branch,               \* which statement ended the loop of process_query
    last_reflection,           \* history: the provider's answer to this iteration's reflection call
    call_log,                  \* history: stage invocations [stage, iteration]
    filter_log,                \* history: passages given to the relevance filter
    analysis_log,              \* history: documents given to the analyzer
    return_log,                \* history: returns of run_iteration
    status_callback,           \* argument status_callback of run_iteration
    query_history,             \* history: the history given to this iteration's Query Generator call
    entry_state,               \* history: the fields of the workflow when this iteration was entered
    exception,                 \* the exception that ended the process, "none" so far
    startup_pc,                \* position in the imports main.py starts with
    api_key_set,               \* os.getenv("OPENROUTER_API_KEY") has a value
    index_reachable,           \* weaviate.connect_to_local can connect
    startup_log,               \* history: the initialisations the imports ran
    \* one call of call_function_in_parallel (02_app/_core/utils.py)
    pool_prompt_list,          \* argument prompt_list
    max_workers,               \* width of the ThreadPoolExecutor
    call_raises,               \* input: whether the call made for a future raises
    pool_pc,                   \* position of the calling thread
    futures,                   \* the futures, in the order executor.submit made them
    future_to_index,           \* local dict future -> index
    work_queue,                \* the executor's queue of work not yet taken
    running,                   \* futures a worker thread is executing
    completion_order,          \* history: futures in the order they finished
    yielded,                   \* futures as_completed has handed to the loop
    pool_results,              \* local list results
    \* the report stage of process_query (main.py:210-257)
    report_pc,                 \* position in the report stage
    model_id,                  \* model_config["final_report"], the requested model
    performance_high,          \* config["models"]["performance_high"]
    fallback,                  \* config["models"]["fallback"]
    fallback_token_limit,      \* config["llm"]["fallback_token_limit"]
    token_count,               \* what TokenCounter.count_tokens(prompt) returns
    effective_model_id,        \* model_id as call_with_reasoning sends it
    provider_answer,           \* history: what the provider did with the report call
    stream,                    \* local stream of process_query
    final_report,              \* local final_report of process_query
    stream_error,              \* history: the consumer loop caught an exception
    session_state,             \* what lines 252-257 store in st.session_state
    \* one call of _parse_json_response (llm_processing.py:33-61)
    parse_input,               \* argument response
    parse_pc,                  \* position in _parse_json_response
    parse_result,              \* what the call returns
    wrapped,                   \* history: the fenced payload the response was built from
    \* one call of chunk_text (01_data/utils.py:28-95)
    sent_tokens,               \* local tokens: the token count of each sentence
    max_token_count,           \* argument max_token_count
    overlap_tokens,            \* argument overlap_tokens
    chunk_pc,                  \* position in chunk_text
    chunks,                    \* local chunks: each chunk the list of its sentences
    current_chunk_start,       \* local current_chunk_start
    current_sent,              \* local current_sent
    current_chunk,             \* local current_chunk
    current_tokens,            \* local current_tokens
    count_back_tokens,         \* local count_back_tokens
    count_back_sents,          \* local count_back_sents
    chunk_result               \* what chunk_text returns

\* the state of ResearchWorkflow and the locals of process_query
run_vars == << iterative_workflow, max_iterations, previous_queries,
           previous_chunk_ids, previous_doc_ids, previous_considerations,
           previous_analysis_results, final_docs, loop_idx, pc,
           search_queries, search_results, relevant_doc_ids,
           analysis_results, relevance_checks, relevance_answers,
           returned_passages, finished,
           exit_branch, last_reflection, call_log, filter_log, analysis_log,
           return_log, status_callback, query_history,
           entry_state >>

\* the state of the module-level initialisations
startup_vars == << startup_pc, api_key_set, index_reachable, startup_log >>

\* the state of the research workflow and of process_query
workflow_vars == << run_vars, startup_vars, exception >>

\* the state of one parallel batch
pool_vars == << pool_prompt_list, max_workers, call_raises, pool_pc, futures,
                future_to_index, work_queue, running, completion_order,
                yielded, pool_results >>

\* the state of the report stage
report_vars == << report_pc, model_id, performance_high, fallback,
                  fallback_token_limit, token_count, effective_model_id,
                  provider_answer, stream, final_report, stream_error,
                  session_state >>

\* the state of one call of the response parser
parse_vars == << parse_input, parse_pc, parse_result, wrapped >>

\* the state of one call of chunk_text
chunk_vars == << sent_tokens, max_token_count, overlap_tokens, chunk_pc, chunks,
                 current_chunk_start, current_sent, current_chunk,
                 current_tokens, count_back_tokens, count_back_sents,
                 chunk_result >>

\* what a run of the workflow leaves alone
aux_vars == << pool_vars, report_vars, parse_vars, chunk_vars >>

vars == << workflow_vars, aux_vars >>

----------------------------------------------------------------------------
(* Bounds of the model *)

\* largest configured max_iterations explored
MaxIterations == 3
\* passages (chunks) held by the search index
NumPassages == 4
\* rows of the document store
NumDocs == 2
\* passages one hybrid search returns at most (workflow_config["search_limit"])
SearchLimit == 1
\* queries the provider returns at most in one answer
MaxReturnedQueries == 2
\* the configured query count explored (workflow_config["max_queries"])
max_queries == 1
\* inputs of one parallel batch at most
MaxBatch == 3
\* largest pool width explored
MaxWorkers == 2
\* distinct prompt texts of a batch
NumPrompts == 2
\* largest token count of a report prompt, and largest ceiling, explored
MaxTokenCount == 3
\* the configured attempts of one call (config["llm"]["tenacity_stop_attempts"])
tenacity_stop_attempts == 2
\* largest max_iterations of the runs followed thread by thread
BatchIterations == 2
\* pieces of a free response text at most
MaxTextLen == 5
\* pieces of text before and after a fenced block at most
MaxAround == 2
\* sentences of a document at most
MaxSents == 4
\* largest token count of a sentence
MaxSentTokens == 3
\* largest max_token_count explored
MaxChunkTokens == 4
\* largest overlap_tokens explored
MaxOverlap == 3

----------------------------------------------------------------------------
(* Python values that cross the JSON boundary *)

PyTrue == [t |-> "bool", v |-> "true"]
PyFalse == [t |-> "bool", v |-> "false"]
PyNone == [t |-> "none", v |-> ""]
PyStr(s) == [t |-> "str", v |-> s]

\* truth value testing as `if x:` / `x or y` do it
Truthy(x) == \/ x.t = "bool" /\ x.v = "true"
             \/ x.t = "str" /\ x.v # ""

\* `finished or False` (workflow.py:149)
OrFalse(x) == IF Truthy(x) THEN x ELSE PyFalse

\* str.lower() on the strings the model uses
Lower(s) == CASE s = "True" -> "true"
              [] s = "False" -> "false"
              [] s = "YES" -> "yes"
              [] OTHER -> s

to_bool(value) ==
    IF value.t = "bool" THEN value
    ELSE IF value.t = "str" /\ Lower(value.v) \in {"true", "1", "yes"} THEN PyTrue
    ELSE IF value.t = "str" /\ Lower(value.v) \in {"false", "0", "no"} THEN PyFalse
    ELSE PyNone

----------------------------------------------------------------------------
(* Sequences *)

Range(s) == {s[i] : i \in 1..Len(s)}

NoDup(s) == \A i, j \in 1..Len(s) : i # j => s[i] # s[j]

IsPrefix(s, t) == Len(s) <= Len(t) /\ \A i \in 1..Len(s) : s[i] = t[i]

RECURSIVE Flatten(_)
Flatten(ss) == IF ss = <<>> THEN <<>> ELSE Head(ss) \o Flatten(Tail(ss))

\* injective sequences over S of length at most n
RECURSIVE InjSeqs(_, _)
InjSeqs(S, n) ==
    IF n = 0 THEN {<<>>}
    ELSE LET shorter == InjSeqs(S, n - 1)
         IN shorter \cup UNION {{Append(s, x) : x \in S \ Range(s)} : s \in shorter}

----------------------------------------------------------------------------
(* The document store and the search index *)

DocIds == 1..NumDocs

\* the text of a stored document, a token distinct from its identifier
DocText(d) == d + 100

\* st.session_state.docs: one row per document, keyed by identifier
docs == [d \in DocIds |-> [identifier |-> d, text |-> DocText(d)]]

PassageIds == 1..NumPassages

\* the document a passage was cut from; passages 1 and 2 belong to document 1,
\* and the owners above NumDocs are not rows of the store
Owner(p) == IF p <= 2 THEN 1 ELSE p - 1

\* one object of the index as hybrid_search returns it
Passage(p) == [identifier |-> Owner(p), chunk_text |-> p, uuid |-> p]

\* the ranked lists one hybrid search can answer with
SearchAnswers == {[i \in DOMAIN s |-> Passage(s[i])] : s \in InjSeqs(PassageIds, SearchLimit)}

\* execute_searches: the answers of the queries, concatenated in query order
execute_searches(queries, answers) ==
    Flatten([i \in 1..Len(queries) |-> answers[i]])

\* faulty variant: duplicates are kept
drop_duplicates_none(rows) == rows

\* DataFrame.drop_duplicates(subset=["uuid"]): the first row of each uuid is kept
drop_duplicates(rows) ==
    LET keep[i \in 0..Len(rows)] ==
            IF i = 0 THEN <<>>
            ELSE IF \E j \in 1..(i - 1) : rows[j].uuid = rows[i].uuid
                 THEN keep[i - 1]
                 ELSE Append(keep[i - 1], rows[i])
    IN keep[Len(rows)]

\* faulty variant: the passages seen in earlier iterations are not dropped
new_chunks_all(rows, previous) == rows

\* search_results[~search_results.uuid.isin(self.previous_chunk_ids)]
new_chunks(rows, previous) ==
    LET Unseen(row) == row.uuid \notin Range(previous)
    IN SelectSeq(rows, Unseen)

\* Series.unique(): the distinct values in order of first appearance
unique(values) ==
    LET keep[i \in 0..Len(values)] ==
            IF i = 0 THEN <<>>
            ELSE IF \E j \in 1..(i - 1) : values[j] = values[i]
                 THEN keep[i - 1]
                 ELSE Append(keep[i - 1], values[i])
    IN keep[Len(values)]

\* data[data["identifier"].isin(ids)]: the rows of the store, in row order
isin_rows(data, ids) ==
    LET Wanted(row) == row.identifier \in Range(ids)
    IN SelectSeq(data, Wanted)

----------------------------------------------------------------------------
(* Answers of the provider *)

PyAbsent == [t |-> "absent", v |-> ""]

\* dict.get(key): a missing key reads as None
Get(value) == IF value.t = "absent" THEN PyNone ELSE value

\* kinds of text a call returns; "error" is a call that raised after its retries
ParsableKinds == {"json", "fenced"}

\* _parse_json_response: the object of a JSON text, bare or fenced, else None
parse_json_response(response) ==
    IF response.kind = "empty" THEN [ok |-> FALSE, obj |-> response]
    ELSE IF response.kind = "json" THEN [ok |-> TRUE, obj |-> response]
    ELSE IF response.kind = "fenced" THEN [ok |-> TRUE, obj |-> response]
    ELSE [ok |-> FALSE, obj |-> response]

\* the query lists the provider answers with: q1, .., qn
QueryLists == {[i \in 1..n |-> i] : n \in 0..MaxReturnedQueries}

QueryAnswers ==
    {[kind |-> k, has_queries |-> FALSE, queries |-> <<>>] :
        k \in {"error", "empty", "malformed", "json"}}
    \cup {[kind |-> k, has_queries |-> TRUE, queries |-> q] :
        k \in ParsableKinds, q \in QueryLists}

\* create_queries, after the call returned `response`
create_queries(response) ==
    IF response.kind = "empty" THEN <<>>
    ELSE LET parsed == parse_json_response(response)
         IN IF parsed.ok
            THEN IF parsed.obj.has_queries THEN parsed.obj.queries ELSE <<>>
            ELSE <<>>

\* str.join: the items in their order with the separator between neighbours,
\* as the sequence of the pieces of the text
RECURSIVE join(_, _)
join(sep, items) ==
    IF items = <<>> THEN <<>>
    ELSE IF Len(items) = 1 THEN << items[1] >>
    ELSE << items[1], sep >> \o join(sep, Tail(items))

\* no Query Generator call was made, so no history was given
NoHistory ==
    [called |-> FALSE, has_history |-> FALSE, previous_queries |-> <<>>,
     considerations |-> <<>>]

\* faulty variant: every call is treated as the first
first_iteration_always(iteration) == TRUE

\* workflow.py:58: first_iteration=(iteration == 0)
first_iteration(iteration) == iteration = 0

\* llm_processing.py:86-93: the history the system message of the call
\* carries: none in the first iteration, else the joined lists
system_message_history(first, queries, considerations) ==
    IF first
    THEN [NoHistory EXCEPT !.called = TRUE]
    ELSE [called |-> TRUE, has_history |-> TRUE,
          previous_queries |-> join("NL", queries),
          considerations |-> join("NL", considerations)]

\* "\n".join(items) raises TypeError unless every item is a str
JoinRaises(items) == \E i \in 1..Len(items) : items[i].t # "str"

RelevanceAnswers ==
    {[kind |-> k, relevance |-> PyAbsent] : k \in {"error", "empty", "malformed"}}
    \cup {[kind |-> "json", relevance |-> r] :
            r \in {PyTrue, PyFalse, PyNone, PyStr("yes"), PyStr("maybe")}}

\* call_function_in_parallel: results[i] is the answer of call i, or the
\* inline "Error: ..." text when call i raised
call_function_in_parallel(prompt_list, answers) ==
    [i \in 1..Len(prompt_list) |->
        IF answers[i].kind = "error"
        THEN [answers[i] EXCEPT !.kind = "errstr"]
        ELSE answers[i]]

\* _parse_relevance_results: the verdict of each result
parse_relevance_results(results) ==
    [i \in 1..Len(results) |->
        IF results[i].kind = "empty" THEN PyNone
        ELSE LET parsed == parse_json_response(results[i])
             IN IF parsed.ok THEN to_bool(Get(parsed.obj.relevance)) ELSE PyNone]

\* faulty variant: only the rows whose verdict is False are dropped
check_relevance_not_false(data, answers) ==
    LET results == call_function_in_parallel(data, answers)
        checks == parse_relevance_results(results)
        idx == {i \in 1..Len(data) : checks[i] # PyFalse}
        keep[i \in 0..Len(data)] ==
            IF i = 0 THEN <<>>
            ELSE IF i \in idx THEN Append(keep[i - 1], data[i]) ELSE keep[i - 1]
    IN keep[Len(data)]

\* check_relevance: the rows whose verdict is True (NA counts as False)
check_relevance(data, answers) ==
    LET results == call_function_in_parallel(data, answers)
        checks == parse_relevance_results(results)
        idx == {i \in 1..Len(data) : checks[i] = PyTrue}
        keep[i \in 0..Len(data)] ==
            IF i = 0 THEN <<>>
            ELSE IF i \in idx THEN Append(keep[i - 1], data[i]) ELSE keep[i - 1]
    IN keep[Len(data)]

\* faulty variant: the list is rebound to the new items
extend_replace(list, items) == items

\* list.extend(items) (workflow.py:60, 80, 99, 117)
extend(list, items) == list \o items

\* faulty variant: the documents seen in earlier iterations are not dropped
new_doc_ids_all(ids, previous) == ids

\* [x for x in relevant_doc_ids if x not in self.previous_doc_ids]
new_doc_ids(ids, previous) ==
    LET Unseen(x) == x \notin Range(previous)
    IN SelectSeq(ids, Unseen)

\* faulty variant: the rows are taken in the order of document_ids
relevant_docs_by_id(document_ids, data) ==
    LET stored == SelectSeq(document_ids, LAMBDA x : x \in DOMAIN data)
    IN [i \in 1..Len(stored) |-> data[stored[i]]]

\* llm_processing.py:117: the rows analyze_documents builds its prompts from,
\* in the row order of the store
relevant_docs(document_ids, data) == isin_rows(data, document_ids)

\* analyze_documents: one call per row of relevant_docs; ok[i] tells whether
\* call i returned a text or raised
analyze_documents(document_ids, data, ok) ==
    LET rows == relevant_docs(document_ids, data)
        prompts == [i \in 1..Len(rows) |-> rows[i].text]
        answers == [i \in 1..Len(rows) |->
                      [kind |-> IF ok[i] THEN "text" ELSE "error", of |-> prompts[i]]]
    IN call_function_in_parallel(prompts, answers)

\* tmp_docs = docs[isin].copy(); tmp_docs["analysis"] = analysis_results
with_analysis(rows, results) ==
    [i \in 1..Len(rows) |->
        [identifier |-> rows[i].identifier, text |-> rows[i].text,
         analysis |-> results[i]]]

NoDocs == [isNone |-> TRUE, rows |-> <<>>]

\* faulty variant: every iteration replaces final_docs
update_final_docs_overwrite(current, tmp_docs, iteration) ==
    [isNone |-> FALSE, rows |-> tmp_docs]

\* workflow.py:120-128: iteration 0 sets final_docs, later ones concatenate
update_final_docs(current, tmp_docs, iteration) ==
    IF iteration = 0
    THEN [isNone |-> FALSE, rows |-> tmp_docs]
    ELSE [isNone |-> FALSE, rows |-> current.rows \o tmp_docs]

ReflectAnswers ==
    {[kind |-> k, finished |-> PyAbsent, reflection |-> PyAbsent] :
        k \in {"error", "empty", "malformed"}}
    \cup {[kind |-> "json", finished |-> f, reflection |-> PyStr("r")] :
        f \in {PyTrue, PyFalse, PyNone, PyAbsent, PyStr("false"), PyStr("unknown")}}
    \cup {[kind |-> "fenced", finished |-> PyTrue, reflection |-> PyStr("r")],
          [kind |-> "json", finished |-> PyFalse, reflection |-> PyAbsent]}

\* reflect_task_status, after the call returned `response`
reflect_task_status(response) ==
    IF response.kind = "empty" THEN <<PyNone, PyNone>>
    ELSE LET parsed == parse_json_response(response)
         IN IF parsed.ok
            THEN <<Get(parsed.obj.finished), Get(parsed.obj.reflection)>>
            ELSE <<PyNone, PyNone>>

----------------------------------------------------------------------------
(* Control decisions of run_iteration and process_query *)

\* faulty variant: an empty output does not end the iteration
starved_never(output) == FALSE

\* workflow.py:62, 82, 101: `if len(..) == 0: return False, self.final_docs`
starved(output) == Len(output) = 0

\* faulty variant: the reflection runs in every mode
returns_after_analysis_never(iterative) == FALSE

\* workflow.py:130: `if not self.iterative_workflow: return True, final_docs`
returns_after_analysis(iterative) == ~iterative

\* faulty variant: the loop has no iteration limit
after_iteration_unbounded(iterative, fin, fdocs, idx, maxit) ==
    IF fin.t = "none" \/ fdocs.isNone THEN "no_docs"
    ELSE IF ~iterative \/ Truthy(fin) THEN "complete"
    ELSE "next"

\* faulty variant: the test of main.py:184 for a missing result is left out
after_iteration_unchecked(iterative, fin, fdocs, idx, maxit) ==
    IF ~iterative \/ Truthy(fin) \/ idx >= maxit - 1 THEN "complete"
    ELSE IF idx + 1 < maxit THEN "next"
    ELSE "range_end"

\* main.py:163-201: what the loop of process_query does with the pair that
\* run_iteration returned: break without documents, break as complete, go on
\* to the next index, or leave the loop when the range is used up
after_iteration(iterative, fin, fdocs, idx, maxit) ==
    IF fin.t = "none" \/ fdocs.isNone THEN "no_docs"
    ELSE IF ~iterative \/ Truthy(fin) \/ idx >= maxit - 1 THEN "complete"
    ELSE IF idx + 1 < maxit THEN "next"
    ELSE "range_end"

NoReflection ==
    [kind |-> "none", finished |-> PyAbsent, reflection |-> PyAbsent,
     research_results |-> <<>>]

\* the reflection call as the provider saw and answered it: the answer and
\* the argument research_results of reflect_task_status
Reflection(response, research_results) ==
    [kind |-> response.kind, finished |-> response.finished,
     reflection |-> response.reflection, research_results |-> research_results]

Log(stage) == Append(call_log, [stage |-> stage, iteration |-> loop_idx])

Returned(reason, fdocs) ==
    Append(return_log, [iteration |-> loop_idx, reason |-> reason, docs |-> fdocs])

\* llm_client.py:56-63, 94-131: a call whose every attempt failed raises
\* tenacity's RetryError out of call_structured
retry_error_swallowed(response) == FALSE

retry_error(response) == response.kind = "error"

\* workflow.py:49 tests the callback, lines 63-147 call it untested: calling
\* None raises TypeError
callback_raises(callback) == callback = "None"

\* config.py:54-61: Config() validates the required environment variables
load_config(key_set) == IF key_set THEN "loaded" ELSE "RuntimeError"

\* faulty variant: a failed connection is passed over
initialize_weaviate_unchecked(reachable) == "collection"

\* search.py:11-45: connect_to_local raises when no index answers, and
\* initialize_weaviate re-raises it
initialize_weaviate(reachable) ==
    IF reachable THEN "collection" ELSE "WeaviateStartUpError"

\* llm_client.py:47-50: OpenRouterClient() needs the API key
OpenRouterClient(key_set) == IF key_set THEN "client" ELSE "ValueError"

\* the initialisations the imports of main.py run, in their order
Imports == << "config", "search", "llm_processing" >>

----------------------------------------------------------------------------
(* The run *)

\* the fields of ResearchWorkflow that _initialize_state sets (workflow.py:30-37)
IterationState ==
    [previous_queries |-> previous_queries,
     previous_chunk_ids |-> previous_chunk_ids,
     previous_doc_ids |-> previous_doc_ids,
     previous_considerations |-> previous_considerations,
     previous_analysis_results |-> previous_analysis_results,
     final_docs |-> final_docs]

\* run_iteration is not being executed
NotEntered ==
    [previous_queries |-> <<>>, previous_chunk_ids |-> <<>>,
     previous_doc_ids |-> <<>>, previous_considerations |-> <<>>,
     previous_analysis_results |-> <<>>, final_docs |-> NoDocs]

\* the failure marker None, and a parsed document
ParseFailure == [ok |-> FALSE, value |-> "None"]
Parsed(value) == [ok |-> TRUE, value |-> value]

\* a response: None, an object that is not a str, or a str
NoInput == [t |-> "none", text |-> <<>>]
NotWrapped == [payload |-> "None", tag |-> <<>>, before |-> <<>>, after |-> <<>>]

\* no response is being parsed
ParseIdle ==
    /\ parse_pc = "idle"
    /\ parse_input = NoInput
    /\ parse_result = ParseFailure
    /\ wrapped = NotWrapped

\* no document is being chunked
ChunkIdle ==
    /\ sent_tokens = <<>>
    /\ max_token_count = 0
    /\ overlap_tokens = 0
    /\ chunk_pc = "idle"
    /\ chunks = <<>>
    /\ current_chunk_start = 0
    /\ current_sent = 0
    /\ current_chunk = <<>>
    /\ current_tokens = 0
    /\ count_back_tokens = 0
    /\ count_back_sents = 0
    /\ chunk_result = <<>>

\* main.py has imported its modules and process_query was called by the app
Started ==
    /\ status_callback = "update_status"
    /\ exception = "none"
    /\ startup_pc = "done"
    /\ api_key_set = TRUE
    /\ index_reachable = TRUE
    /\ startup_log = Imports

\* no batch is being followed
PoolIdle ==
    /\ pool_prompt_list = <<>>
    /\ max_workers = 1
    /\ call_raises = <<>>
    /\ pool_pc = "idle"
    /\ futures = <<>>
    /\ future_to_index = <<>>
    /\ work_queue = <<>>
    /\ running = {}
    /\ completion_order = <<>>
    /\ yielded = {}
    /\ pool_results = <<>>

\* nothing stored by lines 252-257
NoSession ==
    [stored |-> FALSE, final_report |-> "", final_docs |-> NoDocs,
     search_queries |-> <<>>, search_results |-> <<>>,
     relevant_doc_ids |-> <<>>]

NoStream == [kind |-> "none", response |-> "", chunks |-> <<>>]

NoAnswer == [kind |-> "none", text |-> ""]

\* the report stage has not begun
ReportIdle ==
    /\ report_pc = "idle"
    /\ model_id = ""
    /\ performance_high = ""
    /\ fallback = ""
    /\ fallback_token_limit = 0
    /\ token_count = 0
    /\ effective_model_id = ""
    /\ provider_answer = NoAnswer
    /\ stream = NoStream
    /\ final_report = ""
    /\ stream_error = FALSE
    /\ session_state = NoSession

\* ResearchWorkflow.__init__ and the locals of process_query before the loop
WorkflowInit(iterative, maxit) ==
    /\ iterative_workflow = iterative
    /\ max_iterations = maxit
    /\ previous_queries = <<>>
    /\ previous_chunk_ids = <<>>
    /\ previous_doc_ids = <<>>
    /\ previous_considerations = <<>>
    /\ previous_analysis_results = <<>>
    /\ final_docs = NoDocs
    /\ loop_idx = 0
    /\ pc = "loop_head"
    /\ search_queries = <<>>
    /\ search_results = <<>>
    /\ relevant_doc_ids = <<>>
    /\ analysis_results = <<>>
    /\ relevance_checks = <<>>
    /\ relevance_answers = <<>>
    /\ returned_passages = <<>>
    /\ finished = PyNone
    /\ exit_branch = "none"
    /\ last_reflection = NoReflection
    /\ call_log = <<>>
    /\ filter_log = <<>>
    /\ analysis_log = <<>>
    /\ return_log = <<>>
    /\ query_history = NoHistory
    /\ entry_state = NotEntered

\* the process before main.py's first import; run_iteration's callback is
\* update_status (main.py:180) or, by its default, None
Init ==
    /\ \E iterative \in BOOLEAN, maxit \in 1..MaxIterations :
          WorkflowInit(iterative, maxit)
    /\ status_callback \in {"update_status", "None"}
    /\ exception = "none"
    /\ startup_pc = "config"
    /\ api_key_set \in BOOLEAN
    /\ index_reachable \in BOOLEAN
    /\ startup_log = <<>>
    /\ PoolIdle
    /\ ReportIdle
    /\ ParseIdle
    /\ ChunkIdle

\* main.py:7 -> logger.py:3 -> config.py:72: config = Config()
LoadConfig ==
    /\ startup_pc = "config"
    /\ startup_log' = Append(startup_log, "config")
    /\ IF load_config(api_key_set) = "loaded"
       THEN /\ startup_pc' = "search"
            /\ UNCHANGED exception
       ELSE /\ startup_pc' = "failed"
            /\ exception' = load_config(api_key_set)
    /\ UNCHANGED << run_vars, api_key_set, index_reachable, aux_vars >>

\* main.py:9 -> workflow.py:4 -> search.py:45: collection = initialize_weaviate()
ConnectIndex ==
    /\ startup_pc = "search"
    /\ startup_log' = Append(startup_log, "search")
    /\ IF initialize_weaviate(index_reachable) = "collection"
       THEN /\ startup_pc' = "llm_processing"
            /\ UNCHANGED exception
       ELSE /\ startup_pc' = "failed"
            /\ exception' = initialize_weaviate(index_reachable)
    /\ UNCHANGED << run_vars, api_key_set, index_reachable, aux_vars >>

\* workflow.py:5 -> llm_processing.py:23: ClientManager().get_client(..)
CreateClient ==
    /\ startup_pc = "llm_processing"
    /\ startup_log' = Append(startup_log, "llm_processing")
    /\ IF OpenRouterClient(api_key_set) = "client"
       THEN /\ startup_pc' = "done"
            /\ UNCHANGED exception
       ELSE /\ startup_pc' = "failed"
            /\ exception' = OpenRouterClient(api_key_set)
    /\ UNCHANGED << run_vars, api_key_set, index_reachable, aux_vars >>

\* main.py:163-182: the loop calls workflow.run_iteration(user_query, loop_idx, ..)
StartIteration ==
    /\ pc = "loop_head"
    /\ startup_pc = "done"
    /\ UNCHANGED aux_vars
    /\ UNCHANGED << status_callback, startup_vars, exception >>
    /\ query_history' = NoHistory
    /\ entry_state' = IterationState
    /\ pc' = "create_queries"
    /\ call_log' = Log("run_iteration")
    /\ search_queries' = <<>>
    /\ search_results' = <<>>
    /\ relevant_doc_ids' = <<>>
    /\ analysis_results' = <<>>
    /\ relevance_checks' = <<>>
    /\ relevance_answers' = <<>>
    /\ returned_passages' = <<>>
    /\ last_reflection' = NoReflection
    /\ UNCHANGED << iterative_workflow, max_iterations, previous_queries,
                    previous_chunk_ids, previous_doc_ids, previous_considerations,
                    previous_analysis_results, final_docs, loop_idx, finished,
                    exit_branch, filter_log, analysis_log, return_log >>

\* workflow.py:48-64 with llm_processing.py:77-107
CreateQueries ==
    /\ pc = "create_queries"
    /\ UNCHANGED aux_vars
    /\ UNCHANGED << status_callback, entry_state, startup_vars >>
    /\ IF ~first_iteration(loop_idx) /\ JoinRaises(previous_considerations)
       THEN \* the prompt cannot be built: TypeError before any call
            /\ pc' = "raised"
            /\ exception' = "TypeError: join"
            /\ UNCHANGED << previous_queries, search_queries, finished,
                            call_log, return_log, query_history >>
       ELSE \E response \in QueryAnswers :
            /\ call_log' = Log("create_queries")
            /\ query_history' = system_message_history(
                   first_iteration(loop_idx), previous_queries,
                   previous_considerations)
            /\ IF retry_error(response)
               THEN /\ pc' = "raised"
                    /\ exception' = "RetryError"
                    /\ UNCHANGED << previous_queries, search_queries, finished,
                                    return_log >>
               ELSE LET queries == create_queries(response)
                    IN /\ previous_queries' = extend(previous_queries, queries)
                       /\ search_queries' = queries
                       /\ IF callback_raises(status_callback)
                          THEN \* lines 63 and 67 call None
                               /\ pc' = "raised"
                               /\ exception' = "TypeError: not callable"
                               /\ UNCHANGED << finished, return_log >>
                          ELSE /\ UNCHANGED exception
                               /\ IF starved(queries)
                                  THEN /\ finished' = PyFalse
                                       /\ return_log' =
                                              Returned("no_queries", final_docs)
                                       /\ pc' = "loop_check"
                                  ELSE /\ pc' = "execute_searches"
                                       /\ UNCHANGED << finished, return_log >>
    /\ UNCHANGED << iterative_workflow, max_iterations, previous_chunk_ids,
                    previous_doc_ids, previous_considerations,
                    previous_analysis_results, final_docs, loop_idx,
                    search_results, relevant_doc_ids, analysis_results,
                    exit_branch, last_reflection, filter_log, analysis_log >>
    /\ UNCHANGED << relevance_checks, relevance_answers, returned_passages >>

\* workflow.py:66-84 with search.py:78-98
ExecuteSearches ==
    /\ pc = "execute_searches"
    /\ UNCHANGED aux_vars
    /\ UNCHANGED << status_callback, query_history, entry_state, startup_vars, exception >>
    /\ call_log' = Log("execute_searches")
    /\ \E answers \in [1..Len(search_queries) -> SearchAnswers] :
          LET found == drop_duplicates(execute_searches(search_queries, answers))
              fresh == new_chunks(found, previous_chunk_ids)
          IN /\ search_results' = fresh
             /\ returned_passages' = execute_searches(search_queries, answers)
             /\ previous_chunk_ids' =
                    extend(previous_chunk_ids,
                           unique([i \in 1..Len(fresh) |-> fresh[i].uuid]))
             /\ IF starved(fresh)
                THEN /\ finished' = PyFalse
                     /\ return_log' = Returned("no_results", final_docs)
                     /\ pc' = "loop_check"
                ELSE /\ pc' = "check_relevance"
                     /\ UNCHANGED << finished, return_log >>
    /\ UNCHANGED << iterative_workflow, max_iterations, previous_queries,
                    previous_doc_ids, previous_considerations,
                    previous_analysis_results, final_docs, loop_idx,
                    search_queries, relevant_doc_ids, analysis_results,
                    exit_branch, last_reflection, filter_log, analysis_log >>
    /\ UNCHANGED << relevance_checks, relevance_answers >>

\* workflow.py:86-103 with llm_processing.py:141-193, the provider having
\* answered the calls of the batch with `answers`
CheckRelevanceWith(answers) ==
    /\ UNCHANGED << status_callback, query_history, entry_state, startup_vars, exception >>
    /\ call_log' = Log("check_relevance")
    /\ filter_log' = filter_log \o
          [i \in 1..Len(search_results) |->
              [iteration |-> loop_idx, uuid |-> search_results[i].uuid,
               identifier |-> search_results[i].identifier]]
    /\    LET relevant == check_relevance(search_results, answers)
              ids == unique([i \in 1..Len(relevant) |-> relevant[i].identifier])
              fresh == new_doc_ids(ids, previous_doc_ids)
          IN /\ relevance_checks' = relevant
             /\ relevance_answers' = answers
             /\ relevant_doc_ids' = fresh
             /\ previous_doc_ids' = extend(previous_doc_ids, fresh)
             /\ IF starved(fresh)
                THEN /\ finished' = PyFalse
                     /\ return_log' = Returned("no_relevant", final_docs)
                     /\ pc' = "loop_check"
                ELSE /\ pc' = "analyze_documents"
                     /\ UNCHANGED << finished, return_log >>
    /\ UNCHANGED << iterative_workflow, max_iterations, previous_queries,
                    previous_chunk_ids, previous_considerations,
                    previous_analysis_results, final_docs, loop_idx,
                    search_queries, search_results, analysis_results,
                    exit_branch, last_reflection, analysis_log >>
    /\ returned_passages' = <<>>

CheckRelevance ==
    /\ pc = "check_relevance"
    /\ UNCHANGED aux_vars
    /\ \E answers \in [1..Len(search_results) -> RelevanceAnswers] :
          CheckRelevanceWith(answers)

\* workflow.py:105-132 with llm_processing.py:110-138, ok[i] telling whether
\* the i-th analysis call returned a text
AnalyzeDocumentsWith(ok) ==
    /\ UNCHANGED << status_callback, query_history, entry_state, startup_vars >>
    /\ call_log' = Log("analyze_documents")
    /\ LET sent == relevant_docs(relevant_doc_ids, docs)
           tmp_rows == isin_rows(docs, relevant_doc_ids)
       IN /\ analysis_log' = analysis_log \o
                [i \in 1..Len(sent) |->
                    [iteration |-> loop_idx, identifier |-> sent[i].identifier]]
          /\    LET results == analyze_documents(relevant_doc_ids, docs, ok)
                IN /\ analysis_results' = results
                   /\ previous_analysis_results' = extend(previous_analysis_results, results)
                   /\ IF Len(results) # Len(tmp_rows)
                      THEN \* the column assignment raises ValueError
                           /\ pc' = "raised"
                           /\ exception' = "ValueError"
                           /\ UNCHANGED << final_docs, finished, return_log >>
                      ELSE LET updated == update_final_docs(
                                   final_docs, with_analysis(tmp_rows, results), loop_idx)
                           IN /\ final_docs' = updated
                              /\ UNCHANGED exception
                              /\ IF returns_after_analysis(iterative_workflow)
                                 THEN /\ finished' = PyTrue
                                      /\ return_log' = Returned("analysed", updated)
                                      /\ pc' = "loop_check"
                                 ELSE /\ pc' = "reflect"
                                      /\ UNCHANGED << finished, return_log >>
    /\ UNCHANGED << iterative_workflow, max_iterations, previous_queries,
                    previous_chunk_ids, previous_doc_ids, previous_considerations,
                    loop_idx, search_queries, search_results, relevant_doc_ids,
                    exit_branch, last_reflection, filter_log >>
    /\ relevance_checks' = <<>>
    /\ relevance_answers' = <<>>
    /\ UNCHANGED returned_passages

AnalyzeDocuments ==
    /\ pc = "analyze_documents"
    /\ UNCHANGED aux_vars
    /\ \E ok \in [1..Len(relevant_docs(relevant_doc_ids, docs)) -> BOOLEAN] :
          AnalyzeDocumentsWith(ok)

\* workflow.py:134-149 with llm_processing.py:196-222
ReflectTaskStatus ==
    /\ pc = "reflect"
    /\ UNCHANGED aux_vars
    /\ UNCHANGED << status_callback, query_history, entry_state, startup_vars >>
    /\ call_log' = Log("reflect_task_status")
    /\ \E response \in ReflectAnswers :
          /\ last_reflection' =
                 Reflection(response, join("NLNL", previous_analysis_results))
          /\ IF retry_error(response)
             THEN /\ pc' = "raised"
                  /\ exception' = "RetryError"
                  /\ UNCHANGED << previous_considerations, finished, return_log >>
             ELSE LET status == reflect_task_status(response)
                  IN /\ UNCHANGED exception
                     /\ previous_considerations' =
                            Append(previous_considerations, status[2])
                     /\ finished' = OrFalse(status[1])
                     /\ return_log' = Returned("reflected", final_docs)
                     /\ pc' = "loop_check"
    /\ UNCHANGED << iterative_workflow, max_iterations, previous_queries,
                    previous_chunk_ids, previous_doc_ids,
                    previous_analysis_results, final_docs, loop_idx,
                    search_queries, search_results, relevant_doc_ids,
                    analysis_results, exit_branch, filter_log, analysis_log >>
    /\ UNCHANGED << relevance_checks, relevance_answers, returned_passages >>

\* main.py:184-201: break, or go on to the next loop_idx
LoopCheck ==
    /\ pc = "loop_check"
    /\ UNCHANGED aux_vars
    /\ UNCHANGED << status_callback, query_history, entry_state, startup_vars, exception >>
    /\ LET step == after_iteration(iterative_workflow, finished, final_docs,
                                   loop_idx, max_iterations)
       IN IF step = "next"
          THEN /\ loop_idx' = loop_idx + 1
               /\ pc' = "loop_head"
               /\ UNCHANGED exit_branch
          ELSE /\ exit_branch' = step
               /\ pc' = "after_loop"
               /\ UNCHANGED loop_idx
    /\ UNCHANGED << iterative_workflow, max_iterations, previous_queries,
                    previous_chunk_ids, previous_doc_ids, previous_considerations,
                    previous_analysis_results, final_docs, search_queries,
                    search_results, relevant_doc_ids, analysis_results, finished,
                    last_reflection, call_log, filter_log, analysis_log,
                    return_log >>
    /\ relevance_checks' = <<>>
    /\ relevance_answers' = <<>>
    /\ returned_passages' = <<>>

\* main.py:203-212: without documents the run stops, else the report is written
AfterLoop ==
    /\ pc = "after_loop"
    /\ UNCHANGED aux_vars
    /\ UNCHANGED << status_callback, startup_vars, exception >>
    /\ query_history' = NoHistory
    /\ entry_state' = NotEntered
    /\ pc' = IF final_docs.isNone THEN "stopped" ELSE "report"
    /\ last_reflection' = NoReflection
    /\ UNCHANGED << iterative_workflow, max_iterations, previous_queries,
                    previous_chunk_ids, previous_doc_ids, previous_considerations,
                    previous_analysis_results, final_docs, loop_idx,
                    search_queries, search_results, relevant_doc_ids,
                    analysis_results, finished, exit_branch,
                    call_log, filter_log, analysis_log, return_log >>
    /\ UNCHANGED << relevance_checks, relevance_answers, returned_passages >>

Next ==
    \/ LoadConfig
    \/ ConnectIndex
    \/ CreateClient
    \/ StartIteration
    \/ CreateQueries
    \/ ExecuteSearches
    \/ CheckRelevance
    \/ AnalyzeDocuments
    \/ ReflectTaskStatus
    \/ LoopCheck
    \/ AfterLoop

Spec == Init /\ [][Next]_vars

\* every call returns or raises, so each step of the run is eventually taken
FairSpec == Spec /\ WF_vars(Next)

----------------------------------------------------------------------------
(* One call of call_function_in_parallel, thread by thread (utils.py:96-134) *)

\* results = [None] * len(prompt_list)
NoResult == [kind |-> "none", of |-> 0]

\* what llm_function(prompt) gives: a text, or an exception raised in the worker
llm_function(prompt, raises) ==
    [kind |-> IF raises THEN "error" ELSE "text", of |-> prompt]

\* faulty variant: the exception is swallowed and the slot keeps None
inline_error_dropped(exc) == NoResult

\* utils.py:131-132: results[index] = f"Error: {exc}"
inline_error(exc) == [exc EXCEPT !.kind = "errstr"]

\* faulty variant: the results are stored in the order of completion
result_index_by_completion(future, position) == position

\* utils.py:128: index = future_to_index[future]; position counts the futures
\* as_completed has yielded, this one included
result_index(future, position) == future_to_index[future]

\* faulty variant: the call gives up one attempt late
stop_after_attempt_late(attempt_number, max_attempt_number) ==
    attempt_number > max_attempt_number

\* llm_client.py:62: stop=stop_after_attempt(n): no attempt follows attempt n
stop_after_attempt(attempt_number, max_attempt_number) ==
    attempt_number >= max_attempt_number

\* faulty variant: the pool starts a thread for every queued work item
idle_worker_always(active, width) == TRUE

\* utils.py:117: ThreadPoolExecutor(max_workers=max_workers): a queued work
\* item is taken when fewer than max_workers threads are executing one
idle_worker(active, width) == Cardinality(active) < width

\* faulty variant: the results are returned with the first one collected,
\* without waiting for the pool
batch_done_first(collected, submitted, active) ==
    collected # {} \/ submitted = 0

\* utils.py:117, 123-134: the loop ends when as_completed has yielded every
\* future, and leaving the with block waits for the worker threads
batch_done(collected, submitted, active) ==
    collected = 1..submitted /\ active = {}

PoolInit ==
    /\ WorkflowInit(FALSE, 1)
    /\ Started
    /\ ReportIdle
    /\ ParseIdle
    /\ ChunkIdle
    /\ pool_prompt_list \in UNION {[1..n -> 1..NumPrompts] : n \in 0..MaxBatch}
    /\ max_workers \in 1..MaxWorkers
    \* call_raises[i]: every attempt of call i fails
    /\ call_raises \in [1..Len(pool_prompt_list) -> BOOLEAN]
    /\ pool_pc = "submit"
    /\ futures = <<>>
    /\ future_to_index = <<>>
    /\ work_queue = <<>>
    /\ running = {}
    /\ completion_order = <<>>
    /\ yielded = {}
    /\ pool_results = [i \in 1..Len(pool_prompt_list) |-> NoResult]

\* utils.py:118-121: executor.submit(llm_function, prompt) for the next prompt
Submit ==
    /\ pool_pc = "submit"
    /\ Len(futures) < Len(pool_prompt_list)
    /\ LET i == Len(futures) + 1
           future == Len(futures) + 1
       IN /\ futures' = Append(futures, [state |-> "pending",
                                         prompt |-> pool_prompt_list[i],
                                         attempts |-> 0,
                                         calls |-> 0,
                                         outcome |-> NoResult])
          /\ future_to_index' = Append(future_to_index, i)
          /\ work_queue' = Append(work_queue, future)
    /\ UNCHANGED << pool_prompt_list, max_workers, call_raises, pool_pc,
                    running, completion_order, yielded, pool_results >>
    /\ UNCHANGED << workflow_vars, report_vars, parse_vars, chunk_vars >>

\* utils.py:123-124: the dict is complete, the loop over as_completed starts
AsCompleted ==
    /\ pool_pc = "submit"
    /\ Len(futures) = Len(pool_prompt_list)
    /\ pool_pc' = "as_completed"
    /\ UNCHANGED << pool_prompt_list, max_workers, call_raises, futures,
                    future_to_index, work_queue, running, completion_order,
                    yielded, pool_results >>
    /\ UNCHANGED << workflow_vars, report_vars, parse_vars, chunk_vars >>

\* a worker thread of the pool takes the oldest queued work item; the pool
\* has at most max_workers threads
WorkerStart ==
    /\ work_queue # <<>>
    /\ idle_worker(running, max_workers)
    /\ LET future == Head(work_queue)
       IN /\ running' = running \cup {future}
          /\ futures' = [futures EXCEPT ![future].state = "running",
                                        ![future].attempts = 1,
                                        ![future].calls = @ + 1]
    /\ work_queue' = Tail(work_queue)
    /\ UNCHANGED << pool_prompt_list, max_workers, call_raises, pool_pc,
                    future_to_index, completion_order, yielded, pool_results >>
    /\ UNCHANGED << workflow_vars, report_vars, parse_vars, chunk_vars >>

\* llm_client.py:56-63, 79-92, 106-131: an attempt of a running call failed
\* and the retry decorator, after its wait, makes the next attempt
WorkerRetry ==
    /\ \E future \in running :
          /\ ~stop_after_attempt(futures[future].attempts, tenacity_stop_attempts)
          /\ futures' = [futures EXCEPT ![future].attempts = @ + 1]
    /\ UNCHANGED << pool_prompt_list, max_workers, call_raises, pool_pc,
                    future_to_index, work_queue, running, completion_order,
                    yielded, pool_results >>
    /\ UNCHANGED << workflow_vars, report_vars, parse_vars, chunk_vars >>

\* the call of a running future returns from an attempt that succeeded, or
\* raises when its last attempt failed; the future is finished
WorkerFinish ==
    /\ \E future \in running :
          /\ call_raises[future] =>
                stop_after_attempt(futures[future].attempts, tenacity_stop_attempts)
          /\ futures' = [futures EXCEPT
                ![future].state = "finished",
                ![future].outcome =
                    llm_function(futures[future].prompt, call_raises[future])]
          /\ running' = running \ {future}
          /\ completion_order' = Append(completion_order, future)
    /\ UNCHANGED << pool_prompt_list, max_workers, call_raises, pool_pc,
                    future_to_index, work_queue, yielded, pool_results >>
    /\ UNCHANGED << workflow_vars, report_vars, parse_vars, chunk_vars >>

\* utils.py:123-132: as_completed yields a finished future, in no fixed order
\* among the finished ones; its result or error text is stored
Collect ==
    /\ pool_pc = "as_completed"
    /\ \E future \in 1..Len(futures) :
          /\ futures[future].state = "finished"
          /\ future \notin yielded
          /\ LET index == result_index(future, Cardinality(yielded) + 1)
                 outcome == futures[future].outcome
             IN pool_results' = [pool_results EXCEPT ![index] =
                    IF outcome.kind = "error" THEN inline_error(outcome)
                                              ELSE outcome]
          /\ yielded' = yielded \cup {future}
    /\ UNCHANGED << pool_prompt_list, max_workers, call_raises, pool_pc,
                    futures, future_to_index, work_queue, running,
                    completion_order >>
    /\ UNCHANGED << workflow_vars, report_vars, parse_vars, chunk_vars >>

\* utils.py:134: as_completed is exhausted, the executor is shut down (every
\* future is done), results is returned
PoolReturn ==
    /\ pool_pc = "as_completed"
    /\ batch_done(yielded, Len(futures), running)
    /\ pool_pc' = "returned"
    /\ UNCHANGED << pool_prompt_list, max_workers, call_raises, futures,
                    future_to_index, work_queue, running, completion_order,
                    yielded, pool_results >>
    /\ UNCHANGED << workflow_vars, report_vars, parse_vars, chunk_vars >>

PoolNext ==
    \/ Submit
    \/ AsCompleted
    \/ WorkerStart
    \/ WorkerRetry
    \/ WorkerFinish
    \/ Collect
    \/ PoolReturn

PoolSpec == PoolInit /\ [][PoolNext]_vars

----------------------------------------------------------------------------
(* The run with its two batch stages followed thread by thread: check_relevance *)
(* and analyze_documents hand their prompts to call_function_in_parallel       *)
(* (llm_processing.py:132-136, 178-186) and go on when it has returned         *)

\* the prompts of the relevance batch, one per row of search_results
relevance_prompts(data) == [i \in 1..Len(data) |-> data[i].uuid]

\* the prompts of the analysis batch, one per document sent
analysis_prompts(document_ids, data) ==
    LET sent == relevant_docs(document_ids, data)
    IN [i \in 1..Len(sent) |-> sent[i].identifier]

\* call_function_in_parallel is entered with prompt_list (utils.py:114-117)
PoolEntered(prompt_list) ==
    /\ pool_prompt_list' = prompt_list
    /\ max_workers' \in 1..MaxWorkers
    /\ call_raises' \in [1..Len(prompt_list) -> BOOLEAN]
    /\ pool_pc' = "submit"
    /\ futures' = <<>>
    /\ future_to_index' = <<>>
    /\ work_queue' = <<>>
    /\ running' = {}
    /\ completion_order' = <<>>
    /\ yielded' = {}
    /\ pool_results' = [i \in 1..Len(prompt_list) |-> NoResult]

\* call_function_in_parallel has returned and its locals are gone
PoolLeft ==
    /\ pool_prompt_list' = <<>>
    /\ max_workers' = 1
    /\ call_raises' = <<>>
    /\ pool_pc' = "idle"
    /\ futures' = <<>>
    /\ future_to_index' = <<>>
    /\ work_queue' = <<>>
    /\ running' = {}
    /\ completion_order' = <<>>
    /\ yielded' = {}
    /\ pool_results' = <<>>

BatchInit ==
    /\ \E iterative \in BOOLEAN, maxit \in 1..BatchIterations :
          WorkflowInit(iterative, maxit)
    /\ Started
    /\ PoolIdle
    /\ ReportIdle
    /\ ParseIdle
    /\ ChunkIdle

\* llm_processing.py:178-186: check_relevance calls call_function_in_parallel
BeginRelevanceBatch ==
    /\ pc = "check_relevance"
    /\ pool_pc = "idle"
    /\ PoolEntered(relevance_prompts(search_results))
    /\ UNCHANGED << workflow_vars, report_vars, parse_vars, chunk_vars >>

\* llm_processing.py:188-193, workflow.py:95-103: the batch has returned, its
\* results are parsed and the state is updated
EndRelevanceBatch ==
    /\ pc = "check_relevance"
    /\ pool_pc = "returned"
    /\ \E answers \in [1..Len(search_results) -> RelevanceAnswers] :
          /\ \A i \in 1..Len(search_results) :
                answers[i].kind = "error" <=> pool_results[i].kind = "errstr"
          /\ CheckRelevanceWith(answers)
    /\ PoolLeft
    /\ UNCHANGED << report_vars, parse_vars, chunk_vars >>

\* llm_processing.py:132-136: analyze_documents calls call_function_in_parallel
BeginAnalysisBatch ==
    /\ pc = "analyze_documents"
    /\ pool_pc = "idle"
    /\ PoolEntered(analysis_prompts(relevant_doc_ids, docs))
    /\ UNCHANGED << workflow_vars, report_vars, parse_vars, chunk_vars >>

\* llm_processing.py:138, workflow.py:117-132: the batch has returned
EndAnalysisBatch ==
    /\ pc = "analyze_documents"
    /\ pool_pc = "returned"
    /\ AnalyzeDocumentsWith([i \in 1..Len(pool_results) |->
                                pool_results[i].kind = "text"])
    /\ PoolLeft
    /\ UNCHANGED << report_vars, parse_vars, chunk_vars >>

BatchNext ==
    \/ StartIteration
    \/ CreateQueries
    \/ ExecuteSearches
    \/ BeginRelevanceBatch
    \/ BeginAnalysisBatch
    \/ Submit
    \/ AsCompleted
    \/ WorkerStart
    \/ WorkerRetry
    \/ WorkerFinish
    \/ Collect
    \/ PoolReturn
    \/ EndRelevanceBatch
    \/ EndAnalysisBatch
    \/ ReflectTaskStatus
    \/ LoopCheck
    \/ AfterLoop

BatchSpec == BatchInit /\ [][BatchNext]_vars

----------------------------------------------------------------------------
(* The report stage: create_final_report, call_with_reasoning and the      *)
(* consumer loop of process_query                                          *)

\* Python's `needle in hay` on str
Contains(needle, hay) ==
    \E i \in 1..(Len(hay) - Len(needle) + 1) :
        SubSeq(hay, i, i + Len(needle) - 1) = needle

Whitespace == {" ", "\n", "\t"}

\* str.strip()
RECURSIVE strip(_)
strip(text) ==
    IF Len(text) = 0 THEN text
    ELSE IF SubSeq(text, 1, 1) \in Whitespace
         THEN strip(SubSeq(text, 2, Len(text)))
    ELSE IF SubSeq(text, Len(text), Len(text)) \in Whitespace
         THEN strip(SubSeq(text, 1, Len(text) - 1))
    ELSE text

\* the model ids a configuration may name
ModelIds == {"google/gemini-2.5-pro", "google/gemini-2.0-flash", "openai/gpt-4.1"}

\* llm_client.py:145: the test that guards the token count; `not in` binds
\* tighter than `or`, and a non-empty str is true
counts_tokens(requested, high) ==
    ~Contains("google/gemini-2.5", requested) \/ Truthy(PyStr(high))

\* faulty variant: a prompt that is exactly at the limit falls back as well
select_model_at_limit(requested, tokens, high, fallback_id, limit) ==
    IF counts_tokens(requested, high) /\ tokens >= limit
    THEN fallback_id ELSE requested

\* llm_client.py:145-151: the model id call_with_reasoning goes on with
select_model(requested, tokens, high, fallback_id, limit) ==
    IF counts_tokens(requested, high) /\ tokens > limit
    THEN fallback_id ELSE requested

\* what the provider does with the report call: the request fails or the
\* payload has no choices (caught at llm_client.py:192), or a text comes back
ReportAnswers ==
    {[kind |-> "error", text |-> ""],
     [kind |-> "text", text |-> ""],
     [kind |-> "text", text |-> " \n"],
     [kind |-> "text", text |-> "Bericht"]}

\* llm_client.py:160-197 and llm_processing.py:251-258: create_final_report
\* returns the pair (response, usage); the model keeps the response
call_with_reasoning(answer) ==
    [kind |-> "tuple",
     response |-> IF answer.kind = "error" THEN "" ELSE answer.text,
     chunks |-> <<>>]

\* next(stream): a tuple is no iterator, so next raises TypeError; an
\* iterator gives its next chunk or raises StopIteration
py_next(s) ==
    IF s.kind # "iterator" THEN [kind |-> "TypeError", content |-> ""]
    ELSE IF s.chunks = <<>> THEN [kind |-> "StopIteration", content |-> ""]
    ELSE [kind |-> "chunk", content |-> Head(s.chunks)]

\* prompts.py:110-116: DOCUMENT renders title, date, link and analysis of a
\* row (the identifier stands for the row's title, date and link)
DOCUMENT(row) == [document |-> row.identifier, analysis |-> row.analysis]

\* llm_processing.py:231-249: the research results of the report prompt, one
\* DOCUMENT per row of final_docs, joined
research_results_text(rows) ==
    join("NLNL", [i \in 1..Len(rows) |-> DOCUMENT(rows[i])])

\* faulty variant: the test of main.py:238 is left out
report_is_empty_never(text) == FALSE

\* main.py:238: final_report.strip() == ""
report_is_empty(text) == strip(text) = ""

\* workflow.py:151-158
get_results ==
    [search_queries |-> previous_queries,
     search_results |-> previous_chunk_ids,
     relevant_doc_ids |-> previous_doc_ids,
     final_docs |-> final_docs]

\* the state of process_query at main.py:210 after a non-iterative run that
\* issued one query, retrieved passage p, found it relevant and analysed its
\* document (ok: the analysis call returned a text)
AfterSingleIteration(p, ok) ==
    LET ids == << Owner(p) >>
        analyses == analyze_documents(ids, docs, [i \in 1..1 |-> ok])
        accumulated == update_final_docs(
                           NoDocs, with_analysis(isin_rows(docs, ids), analyses), 0)
    IN /\ iterative_workflow = FALSE
       /\ max_iterations = 1
       /\ previous_queries = << 1 >>
       /\ previous_chunk_ids = << p >>
       /\ previous_doc_ids = ids
       /\ previous_considerations = <<>>
       /\ previous_analysis_results = analyses
       /\ final_docs = accumulated
       /\ loop_idx = 0
       /\ pc = "report"
       /\ search_queries = << 1 >>
       /\ search_results = << Passage(p) >>
       /\ relevant_doc_ids = ids
       /\ analysis_results = analyses
       /\ relevance_checks = <<>>
       /\ relevance_answers = <<>>
       /\ returned_passages = <<>>
       /\ finished = PyTrue
       /\ exit_branch = "complete"
       /\ last_reflection = NoReflection
       /\ call_log = [i \in 1..5 |->
             [stage |-> << "run_iteration", "create_queries", "execute_searches",
                           "check_relevance", "analyze_documents" >>[i],
              iteration |-> 0]]
       /\ filter_log = << [iteration |-> 0, uuid |-> p, identifier |-> Owner(p)] >>
       /\ analysis_log = << [iteration |-> 0, identifier |-> Owner(p)] >>
       /\ return_log = << [iteration |-> 0, reason |-> "analysed",
                           docs |-> accumulated] >>
       /\ query_history = NoHistory
       /\ entry_state = NotEntered

ReportInit ==
    /\ \E p \in PassageIds, ok \in BOOLEAN : AfterSingleIteration(p, ok)
    /\ Started
    /\ PoolIdle
    /\ ParseIdle
    /\ ChunkIdle
    /\ report_pc = "create_final_report"
    /\ model_id \in ModelIds
    /\ performance_high \in ModelIds
    /\ fallback \in ModelIds
    /\ fallback_token_limit \in 1..MaxTokenCount
    /\ token_count \in 0..MaxTokenCount
    /\ effective_model_id = ""
    /\ provider_answer = NoAnswer
    /\ stream = NoStream
    /\ final_report = ""
    /\ stream_error = FALSE
    /\ session_state = NoSession

\* llm_client.py:145-155: the model id is chosen for the rendered prompt
SelectModel ==
    /\ report_pc = "create_final_report"
    /\ effective_model_id' = select_model(model_id, token_count, performance_high,
                                          fallback, fallback_token_limit)
    /\ report_pc' = "call_model"
    /\ UNCHANGED << model_id, performance_high, fallback, fallback_token_limit,
                    token_count, provider_answer, stream, final_report,
                    stream_error, session_state >>
    /\ UNCHANGED << workflow_vars, pool_vars, parse_vars, chunk_vars >>

\* llm_client.py:160-197, main.py:214-219: the one report call, not retried
CallModel ==
    /\ report_pc = "call_model"
    /\ \E answer \in ReportAnswers :
          /\ provider_answer' = answer
          /\ stream' = call_with_reasoning(answer)
    /\ final_report' = ""
    /\ report_pc' = "consume"
    /\ UNCHANGED << model_id, performance_high, fallback, fallback_token_limit,
                    token_count, effective_model_id, stream_error,
                    session_state >>
    /\ UNCHANGED << workflow_vars, pool_vars, parse_vars, chunk_vars >>

\* main.py:221-235: one round of the consumer loop
ConsumeStream ==
    /\ report_pc = "consume"
    /\ LET got == py_next(stream)
       IN IF got.kind = "chunk"
          THEN /\ final_report' = final_report \o got.content
               /\ stream' = [stream EXCEPT !.chunks = Tail(stream.chunks)]
               /\ UNCHANGED << report_pc, stream_error >>
          ELSE /\ stream_error' = (got.kind # "StopIteration")
               /\ report_pc' = "check_report"
               /\ UNCHANGED << final_report, stream >>
    /\ UNCHANGED << model_id, performance_high, fallback, fallback_token_limit,
                    token_count, effective_model_id, provider_answer,
                    session_state >>
    /\ UNCHANGED << workflow_vars, pool_vars, parse_vars, chunk_vars >>

\* main.py:237-257: an empty report stops the run with an error message,
\* else the results and the report are stored
FinishReport ==
    /\ report_pc = "check_report"
    /\ IF report_is_empty(final_report)
       THEN /\ report_pc' = "failed_report"
            /\ UNCHANGED session_state
       ELSE /\ report_pc' = "done"
            /\ session_state' =
                  [stored |-> TRUE, final_report |-> final_report,
                   final_docs |-> get_results.final_docs,
                   search_queries |-> get_results.search_queries,
                   search_results |-> get_results.search_results,
                   relevant_doc_ids |-> get_results.relevant_doc_ids]
    /\ UNCHANGED << model_id, performance_high, fallback, fallback_token_limit,
                    token_count, effective_model_id, provider_answer, stream,
                    final_report, stream_error >>
    /\ UNCHANGED << workflow_vars, pool_vars, parse_vars, chunk_vars >>

ReportNext ==
    \/ SelectModel
    \/ CallModel
    \/ ConsumeStream
    \/ FinishReport

ReportSpec == ReportInit /\ [][ReportNext]_vars

----------------------------------------------------------------------------
(* _parse_json_response on the text of a response (llm_processing.py:33-61) *)

\* the pieces a response text is made of: a code fence (three backquotes),
\* the tag json, another tag, a newline, a blank, two JSON documents, a word
\* that is not JSON, and a run of opening brackets longer than the
\* interpreter's recursion limit
Fence == "FENCE"
Newline == "NL"
Payloads == {"J1", "J2"}
Deep == "DEEP"
Tokens == {Fence, "json", "py", Newline, "SP", "x", Deep} \cup Payloads

\* what \s matches and str.strip() removes
Blank == {Newline, "SP"}

\* texts of at most n pieces
RECURSIVE Texts(_)
Texts(n) ==
    IF n = 0 THEN {<<>>}
    ELSE LET shorter == Texts(n - 1)
         IN shorter \cup {Append(s, x) : s \in shorter, x \in Tokens}

\* str.strip() on a text
RECURSIVE strip_text(_)
strip_text(text) ==
    IF text = <<>> THEN text
    ELSE IF Head(text) \in Blank THEN strip_text(Tail(text))
    ELSE IF text[Len(text)] \in Blank
         THEN strip_text(SubSeq(text, 1, Len(text) - 1))
    ELSE text

\* json.loads: the document, or JSONDecodeError raised; on nesting beyond
\* the recursion limit the decoder raises RecursionError, which is no
\* JSONDecodeError, before it reads what follows
json_loads(text) ==
    LET doc == strip_text(text)
    IN IF Len(doc) = 1 /\ doc[1] \in Payloads
       THEN [raised |-> "none", value |-> doc[1]]
       ELSE IF doc # <<>> /\ doc[1] = Deep
       THEN [raised |-> "RecursionError", value |-> "None"]
       ELSE [raised |-> "JSONDecodeError", value |-> "None"]

\* a fenced code block around a payload, as a model writes it
fenced(payload, tag) ==
    << Fence >> \o tag \o << Newline, payload, Newline, Fence >>

\* the tags a fence may carry: none, json, another language
FenceTags == {<<>>, << "json" >>, << "py" >>}

\* the ways the pattern of line 54, FENCE(?:json)?\s*\n(.*?)\nFENCE with FENCE
\* three backquotes, matches with its opening fence at
\* position i: <<rank of the tag choice, blanks taken by \s*, end of group>>
FenceMatches(text, i) ==
    LET n == Len(text)
        afterTag == IF i + 1 <= n /\ text[i + 1] = "json"
                    THEN {<< 0, i + 2 >>, << 1, i + 1 >>}
                    ELSE {<< 1, i + 1 >>}
    IN IF text[i] # Fence THEN {}
       ELSE {<< at[1], m, e >> : at \in afterTag, m \in 0..n, e \in 1..n} \cap
            {c \in (0..1) \X (0..n) \X (1..n) :
                \E at \in afterTag :
                   /\ at[1] = c[1]
                   /\ at[2] + c[2] <= n
                   /\ \A k \in at[2]..(at[2] + c[2] - 1) : text[k] \in Blank
                   /\ text[at[2] + c[2]] = Newline
                   /\ c[3] >= at[2] + c[2] + 1
                   /\ c[3] + 1 <= n
                   /\ text[c[3]] = Newline
                   /\ text[c[3] + 1] = Fence}

\* the match the backtracking takes first: the tag if it is there, the
\* longest run for the greedy \s*, the shortest group for the lazy (.*?)
FirstMatch(cands) ==
    CHOOSE c \in cands :
        \A d \in cands :
            \/ c[1] < d[1]
            \/ c[1] = d[1] /\ c[2] > d[2]
            \/ c[1] = d[1] /\ c[2] = d[2] /\ c[3] <= d[3]

\* re.search(.., response, re.DOTALL) and json_match.group(1)
re_search(text) ==
    LET hits == {i \in 1..Len(text) : FenceMatches(text, i) # {}}
    IN IF hits = {} THEN [found |-> FALSE, group |-> <<>>]
       ELSE LET i == CHOOSE h \in hits : \A g \in hits : h <= g
                c == FirstMatch(FenceMatches(text, i))
                start == (IF c[1] = 0 THEN i + 2 ELSE i + 1) + c[2] + 1
            IN [found |-> TRUE, group |-> SubSeq(text, start, c[3] - 1)]

\* llm_processing.py:49, 57: except json.JSONDecodeError
catches(raised) == raised = "JSONDecodeError"

\* the responses explored: no response, a non-str object, every text of at
\* most MaxTextLen pieces, and every fenced payload within surrounding text
ParseInit ==
    /\ WorkflowInit(FALSE, 1)
    /\ Started
    /\ PoolIdle
    /\ ReportIdle
    /\ ChunkIdle
    /\ parse_pc = "guard"
    /\ parse_result = ParseFailure
    /\ \/ /\ parse_input \in {NoInput, [t |-> "object", text |-> <<>>]}
          /\ wrapped = NotWrapped
       \/ /\ parse_input \in {[t |-> "str", text |-> s] : s \in Texts(MaxTextLen)}
          /\ wrapped = NotWrapped
       \/ \E j \in Payloads, tag \in FenceTags,
             b \in Texts(MaxAround), a \in Texts(MaxAround) :
             /\ parse_input = [t |-> "str", text |-> b \o fenced(j, tag) \o a]
             /\ wrapped = [payload |-> j, tag |-> tag, before |-> b, after |-> a]

\* llm_processing.py:43-44
ParseGuard ==
    /\ parse_pc = "guard"
    /\ IF parse_input.t # "str" \/ parse_input.text = <<>>
       THEN /\ parse_result' = ParseFailure
            /\ parse_pc' = "returned"
       ELSE /\ parse_pc' = "direct"
            /\ UNCHANGED parse_result
    /\ UNCHANGED << parse_input, wrapped, workflow_vars, pool_vars, report_vars,
                    chunk_vars >>

\* llm_processing.py:46-50
ParseDirect ==
    /\ parse_pc = "direct"
    /\ LET loaded == json_loads(parse_input.text)
       IN IF loaded.raised = "none"
          THEN /\ parse_result' = Parsed(loaded.value)
               /\ parse_pc' = "returned"
          ELSE /\ parse_pc' = IF catches(loaded.raised) THEN "fenced" ELSE "raised"
               /\ UNCHANGED parse_result
    /\ UNCHANGED << parse_input, wrapped, workflow_vars, pool_vars, report_vars,
                    chunk_vars >>

\* llm_processing.py:52-61
ParseFenced ==
    /\ parse_pc = "fenced"
    /\ LET json_match == re_search(parse_input.text)
           loaded == json_loads(json_match.group)
       IN IF json_match.found /\ loaded.raised = "none"
          THEN /\ parse_result' = Parsed(loaded.value)
               /\ parse_pc' = "returned"
          ELSE IF json_match.found /\ ~catches(loaded.raised)
          THEN /\ parse_pc' = "raised"
               /\ UNCHANGED parse_result
          ELSE /\ parse_result' = ParseFailure
               /\ parse_pc' = "returned"
    /\ UNCHANGED << parse_input, wrapped, workflow_vars, pool_vars, report_vars,
                    chunk_vars >>

ParseNext ==
    \/ ParseGuard
    \/ ParseDirect
    \/ ParseFenced

ParseSpec == ParseInit /\ [][ParseNext]_vars

----------------------------------------------------------------------------
(* One call of chunk_text (01_data/utils.py:28-95); sentences are named by *)
(* their position in sents, counted from 0 as the code does                 *)

\* list[i] raises IndexError unless -len <= i < len
IndexError(i, list) == i < -Len(list) \/ i >= Len(list)

\* list[i]: a negative i counts from the end
Item(list, i) == IF i >= 0 THEN list[i + 1] ELSE list[Len(list) + i + 1]

\* the position of sents[i] in sents
Position(list, i) == IF i >= 0 THEN i ELSE Len(list) + i

\* utils.py:91 and :95: the list of chunks, or the single entry (identifier, None)
ChunkList(made) == [error |-> FALSE, chunks |-> made]
ErrorEntry == [error |-> TRUE, chunks |-> <<>>]

\* faulty variant: the guard against the endless loop is left out
restart_unguarded(sent, start) == sent

\* utils.py:87-88: the next chunk starts after the start of the closed one
restart(sent, start) == IF sent <= start THEN start + 1 ELSE sent

ChunkInit ==
    /\ WorkflowInit(FALSE, 1)
    /\ Started
    /\ PoolIdle
    /\ ReportIdle
    /\ ParseIdle
    /\ sent_tokens \in UNION {[1..n -> 0..MaxSentTokens] : n \in 0..MaxSents}
    /\ max_token_count \in 0..MaxChunkTokens
    /\ overlap_tokens \in -1..MaxOverlap
    /\ chunk_pc = "loop"
    /\ chunks = <<>>
    /\ current_chunk_start = 0
    /\ current_sent = 0
    /\ current_chunk = <<>>
    /\ current_tokens = 0
    /\ count_back_tokens = 0
    /\ count_back_sents = 0
    /\ chunk_result = <<>>

\* utils.py:61-73 and :91-95: one round of the outer loop
ChunkLoop ==
    /\ chunk_pc = "loop"
    /\ IF current_sent >= Len(sent_tokens)
       THEN \* the last chunk is closed and the list returned
            /\ chunks' = Append(chunks, current_chunk)
            /\ chunk_result' = ChunkList(Append(chunks, current_chunk))
            /\ chunk_pc' = "returned"
            /\ UNCHANGED << current_sent, current_chunk, current_tokens >>
       ELSE IF IndexError(current_sent, sent_tokens)
       THEN /\ chunk_result' = ErrorEntry
            /\ chunk_pc' = "error"
            /\ UNCHANGED << chunks, current_sent, current_chunk, current_tokens >>
       ELSE IF current_tokens + Item(sent_tokens, current_sent) < max_token_count
       THEN /\ current_tokens' = current_tokens + Item(sent_tokens, current_sent)
            /\ current_chunk' =
                   Append(current_chunk, Position(sent_tokens, current_sent))
            /\ current_sent' = current_sent + 1
            /\ UNCHANGED << chunks, chunk_pc, chunk_result >>
       ELSE /\ chunks' = Append(chunks, current_chunk)
            /\ current_chunk' = <<>>
            /\ current_tokens' = 0
            /\ chunk_pc' = "count_back"
            /\ UNCHANGED << current_sent, chunk_result >>
    /\ count_back_tokens' = 0
    /\ count_back_sents' = 0
    /\ UNCHANGED << sent_tokens, max_token_count, overlap_tokens,
                    current_chunk_start >>
    /\ UNCHANGED << workflow_vars, pool_vars, report_vars, parse_vars >>

\* utils.py:78-83: one round of the loop that goes back over the sentences
CountBack ==
    /\ chunk_pc = "count_back"
    /\ IF IndexError(current_sent, sent_tokens)
       THEN /\ chunk_result' = ErrorEntry
            /\ chunk_pc' = "error"
            /\ UNCHANGED << current_sent, count_back_tokens, count_back_sents >>
       ELSE /\ count_back_tokens' =
                   count_back_tokens + Item(sent_tokens, current_sent)
            /\ count_back_sents' = count_back_sents + 1
            /\ IF count_back_tokens + Item(sent_tokens, current_sent) > overlap_tokens
               THEN /\ chunk_pc' = "restart"
                    /\ UNCHANGED current_sent
               ELSE /\ current_sent' = current_sent - 1
                    /\ UNCHANGED chunk_pc
            /\ UNCHANGED chunk_result
    /\ UNCHANGED << sent_tokens, max_token_count, overlap_tokens, chunks,
                    current_chunk_start, current_chunk, current_tokens >>
    /\ UNCHANGED << workflow_vars, pool_vars, report_vars, parse_vars >>

\* utils.py:84-89: the next chunk begins
Restart ==
    /\ chunk_pc = "restart"
    /\ LET next_sent == restart(current_sent - count_back_sents, current_chunk_start)
       IN /\ current_sent' = next_sent
          /\ current_chunk_start' = next_sent
    /\ chunk_pc' = "loop"
    /\ UNCHANGED << sent_tokens, max_token_count, overlap_tokens, chunks,
                    current_chunk, current_tokens, count_back_tokens,
                    count_back_sents, chunk_result >>
    /\ UNCHANGED << workflow_vars, pool_vars, report_vars, parse_vars >>

ChunkNext ==
    \/ ChunkLoop
    \/ CountBack
    \/ Restart

ChunkSpec == ChunkInit /\ [][ChunkNext]_vars

\* the interpreter goes on executing the function until it returns
FairChunkSpec == ChunkSpec /\ WF_vars(ChunkNext)

----------------------------------------------------------------------------
(* Vocabulary of the properties *)

Last(s) == s[Len(s)]

\* the run is over: st.stop(), the report stage, or an exception left process_query
Ended == pc \in {"stopped", "report", "raised"} \/ startup_pc = "failed"

StarveReasons == {"no_queries", "no_results", "no_relevant"}

\* the stages some iteration invoked
StageCalls == {i \in 1..Len(call_log) : call_log[i].stage # "run_iteration"}

\* the calls of run_iteration made so far
IterationCalls == {i \in 1..Len(call_log) : call_log[i].stage = "run_iteration"}

\* the identifiers of the rows of final_docs, in row order
AccumulatedIds == [i \in 1..Len(final_docs.rows) |-> final_docs.rows[i].identifier]

\* run_iteration returned at least once, the last time for this reason
LastReturn(reason) == return_log # <<>> /\ Last(return_log).reason = reason

----------------------------------------------------------------------------
(* Properties *)

\* C1: in an iterative run with max_iterations >= 2, an iteration k that
\* starved (no queries, no new passages or no new relevant document ids) is
\* the last one: no stage of a later iteration is invoked, and final_docs stays
\* the value it had when iteration k starved.
C1_StarvedIterationEndsRun ==
    (iterative_workflow /\ max_iterations >= 2) =>
        \A i \in 1..Len(return_log) :
            return_log[i].reason \in StarveReasons =>
                /\ \A c \in StageCalls : call_log[c].iteration <= return_log[i].iteration
                /\ final_docs = return_log[i].docs

\* C2: in iterative mode a run that ends before its last allowed iteration
\* because the iteration reported completion did so only on a reflection
\* answer whose finished field is the boolean true.
C2_ConvergedOnlyOnBooleanTrue ==
    (/\ iterative_workflow
     /\ exit_branch = "complete"
     /\ loop_idx < max_iterations - 1) =>
        last_reflection.finished = PyTrue

\* C3: in iterative mode, when iteration k returns from its reflection: the
\* run stops if the answer's finished field is true, it stops if k is the last
\* allowed iteration, and otherwise exactly iteration k + 1 is started next.
C3_AfterReflection ==
    [][(pc = "loop_check" /\ iterative_workflow /\ LastReturn("reflected")) =>
          IF last_reflection.finished = PyTrue \/ loop_idx = max_iterations - 1
          THEN pc' = "after_loop" /\ exit_branch' = "complete" /\ loop_idx' = loop_idx
          ELSE pc' = "loop_head" /\ loop_idx' = loop_idx + 1]_vars

\* C4: in non-iterative mode there is exactly one iteration: only iteration 0
\* is ever called, the reflection is never invoked, considerations stays
\* empty, and an iteration 0 that reached the analysis ends the run as
\* complete right after it.
C4_NonIterativeSingleIteration ==
    ~iterative_workflow =>
        /\ \A c \in 1..Len(call_log) :
              call_log[c].iteration = 0 /\ call_log[c].stage # "reflect_task_status"
        /\ Cardinality(IterationCalls) <= 1
        /\ previous_considerations = <<>>
        /\ (LastReturn("analysed") /\ pc # "loop_check") =>
              (pc \in {"after_loop", "report"} /\ exit_branch = "complete" /\ finished = PyTrue)

\* a non-iterative run configured for several iterations ended complete after
\* the analysis of iteration 0
C4_Witness ==
    /\ ~iterative_workflow
    /\ max_iterations >= 2
    /\ pc = "report"
    /\ LastReturn("analysed")
    /\ Len(final_docs.rows) >= 1

\* C5: every run is over after at most max_iterations calls of run_iteration,
\* whatever the stages answer: the calls carry the indices 0..max_iterations-1,
\* each at most once, every iteration makes at most its five stage calls, and
\* a run that is not over always has a next step to take.
C5_BoundedTermination ==
    /\ Cardinality(IterationCalls) <= max_iterations
    /\ \A c, d \in IterationCalls :
          /\ call_log[c].iteration < max_iterations
          /\ c < d => call_log[c].iteration < call_log[d].iteration
    /\ Len(call_log) <= 6 * max_iterations
    /\ Ended \/ ENABLED Next

\* a run that used all of its three iterations, with a failed analysis call
C5_Witness ==
    /\ Ended
    /\ max_iterations >= 3
    /\ Cardinality(IterationCalls) = max_iterations
    /\ \E i \in 1..Len(previous_analysis_results) :
          previous_analysis_results[i].kind = "errstr"

\* C6: seen_chunk_ids holds no passage id twice, and the passages given to
\* the relevance filter over all iterations have pairwise distinct ids.
C6_PassagesKeptOnce ==
    /\ NoDup(previous_chunk_ids)
    /\ NoDup([i \in 1..Len(filter_log) |-> filter_log[i].uuid])
    /\ NoDup([i \in 1..Len(search_results) |-> search_results[i].uuid])

\* a later iteration whose searches returned a passage that an earlier
\* iteration had already retrieved, next to a new one that goes to the filter
C6_Witness ==
    /\ loop_idx >= 1
    /\ pc = "check_relevance"
    /\ Len(search_results) >= 1
    /\ \E i \in 1..Len(returned_passages) :
          /\ returned_passages[i].uuid \in Range(previous_chunk_ids)
          /\ returned_passages[i] \notin Range(search_results)

\* C7: no document id occurs twice in accumulated_documents or in
\* seen_document_ids, and no document is given to the analyzer twice in a run.
C7_DocumentsKeptOnce ==
    /\ NoDup(AccumulatedIds)
    /\ NoDup(previous_doc_ids)
    /\ NoDup([i \in 1..Len(analysis_log) |-> analysis_log[i].identifier])

\* a later iteration judged a new passage of an accumulated document relevant
C7_Witness ==
    /\ loop_idx >= 1
    /\ \E i \in 1..Len(relevance_checks) :
          relevance_checks[i].identifier \in Range(AccumulatedIds)
    /\ pc = "analyze_documents"

\* C8 as claimed: once a document is accumulated, no later iteration gives a
\* passage of that document to the relevance filter.
C8_NeverRefiltered ==
    \A i \in 1..Len(analysis_log), j \in 1..Len(filter_log) :
        filter_log[j].identifier = analysis_log[i].identifier =>
            filter_log[j].iteration <= analysis_log[i].iteration

\* the passages of an analysed document that a later iteration filtered
Refiltered ==
    {<<i, j>> \in (1..Len(analysis_log)) \X (1..Len(filter_log)) :
        /\ filter_log[j].identifier = analysis_log[i].identifier
        /\ filter_log[j].iteration > analysis_log[i].iteration}

\* C8 amended: a passage of an accumulated document that a later iteration
\* gives to the relevance filter has a passage id that was never filtered
\* before (nor is again), and its document is not analysed a second time.
C8_RefilteredOnlyNewPassages ==
    \A r \in Refiltered :
        /\ \A k \in 1..Len(filter_log) :
              k # r[2] => filter_log[k].uuid # filter_log[r[2]].uuid
        /\ \A k \in 1..Len(analysis_log) :
              k # r[1] => analysis_log[k].identifier # analysis_log[r[1]].identifier

\* a later iteration filtered a new passage of an accumulated document and
\* went on to analyse another document
C8_Witness ==
    /\ Refiltered # {}
    /\ \E r \in Refiltered :
          \E k \in 1..Len(analysis_log) :
              analysis_log[k].iteration = filter_log[r[2]].iteration

\* the analyzer was called in this iteration for ids that are all stored
AnalysedStoredIds ==
    /\ pc \in {"reflect", "loop_check"}
    /\ analysis_results # <<>>
    /\ \A i \in 1..Len(relevant_doc_ids) : relevant_doc_ids[i] \in DocIds

\* C9 as claimed: the i-th returned analysis is the analysis of the document
\* whose id is document_ids[i].
C9_AlignedWithIdList ==
    AnalysedStoredIds =>
        /\ Len(analysis_results) = Len(relevant_doc_ids)
        /\ \A i \in 1..Len(analysis_results) :
              analysis_results[i].of = DocText(relevant_doc_ids[i])

\* C9 amended: the i-th returned analysis is the analysis of the i-th row of
\* the store, in row order, whose id is in document_ids, and every row of
\* accumulated_documents carries the analysis made from its own text.
C9_AlignedWithStoreRows ==
    /\ (pc \in {"reflect", "loop_check"} /\ analysis_results # <<>>) =>
          LET rows == isin_rows(docs, relevant_doc_ids)
          IN /\ Len(analysis_results) = Len(rows)
             /\ \A i \in 1..Len(rows) : analysis_results[i].of = rows[i].text
    /\ \A i \in 1..Len(final_docs.rows) :
          final_docs.rows[i].analysis.of = final_docs.rows[i].text

\* a batch whose id list is in another order than the rows of the store
C9_Witness ==
    /\ AnalysedStoredIds
    /\ Len(relevant_doc_ids) >= 2
    /\ relevant_doc_ids[1] > relevant_doc_ids[2]
    /\ Len(final_docs.rows) >= 2

\* C10: run_iteration only appends to accumulated_documents: the rows present
\* before a step are the first rows after it, unchanged.
C10_RowsOnlyAppended ==
    [][~final_docs.isNone =>
          /\ ~final_docs'.isNone
          /\ IsPrefix(final_docs.rows, final_docs'.rows)]_vars

\* rows of iteration 0 are still first after a starved iteration 1 and an
\* iteration 2 that added rows
C10_Witness ==
    /\ Len(return_log) >= 3
    /\ return_log[2].reason \in StarveReasons
    /\ return_log[1].docs.rows # <<>>
    /\ Len(final_docs.rows) > Len(return_log[1].docs.rows)
    /\ IsPrefix(return_log[1].docs.rows, final_docs.rows)

\* C11: seen_chunk_ids (previous_chunk_ids) and seen_document_ids
\* (previous_doc_ids) only grow within a run: every step of the run, and so
\* every call of run_iteration, leaves each list with its former content as
\* a prefix; nothing after construction empties or shrinks them.
C11_SeenIdsOnlyGrow ==
    [][/\ IsPrefix(previous_chunk_ids, previous_chunk_ids')
       /\ IsPrefix(previous_doc_ids, previous_doc_ids')]_vars

\* a later iteration has added a passage id and a document id to lists that
\* already held the ids of an earlier iteration
C11_Witness ==
    /\ loop_idx >= 1
    /\ pc = "analyze_documents"
    /\ Len(previous_chunk_ids) >= 2
    /\ Len(previous_doc_ids) >= 2
    /\ \E i \in 1..Len(filter_log) :
          /\ filter_log[i].iteration = 0
          /\ filter_log[i].uuid = previous_chunk_ids[1]
    /\ Last(previous_doc_ids) \in Range(relevant_doc_ids)

\* the answers of the calls of the batch, input by input
PoolAnswers ==
    [i \in 1..Len(pool_prompt_list) |->
        llm_function(pool_prompt_list[i], call_raises[i])]

\* C12: the list call_function_in_parallel returns holds at every index i
\* the result of the call made on input i, whatever the order in which the
\* calls finish and are collected and whatever the pool width.
C12_OutputAlignedWithInput ==
    pool_pc = "returned" =>
        pool_results = call_function_in_parallel(pool_prompt_list, PoolAnswers)

\* a batch over two or more different prompts in a pool of width two or
\* more, whose last input finished first, has returned
C12_Witness ==
    /\ pool_pc = "returned"
    /\ Len(pool_prompt_list) >= 2
    /\ max_workers >= 2
    /\ completion_order[1] = Len(pool_prompt_list)
    /\ pool_prompt_list[1] # pool_prompt_list[Len(pool_prompt_list)]

\* C13: a call that raises puts an inline error value at its own index and
\* nothing else: the list always has one entry per input (also for no input
\* and when every call fails), every other index holds its own call's text,
\* and the list is returned only when every call has finished.
C13_FailureStaysInItsSlot ==
    /\ pool_pc # "idle" => Len(pool_results) = Len(pool_prompt_list)
    /\ pool_pc = "returned" =>
          /\ Len(futures) = Len(pool_prompt_list)
          /\ \A f \in 1..Len(futures) : futures[f].state = "finished"
          /\ \A i \in 1..Len(pool_prompt_list) :
                /\ pool_results[i].of = pool_prompt_list[i]
                /\ pool_results[i].kind = IF call_raises[i] THEN "errstr" ELSE "text"

\* a batch in which one call raised and a later one did not has returned
C13_Witness ==
    /\ pool_pc = "returned"
    /\ \E i, j \in 1..Len(pool_prompt_list) :
          /\ i < j
          /\ call_raises[i]
          /\ ~call_raises[j]
          /\ pool_results[i].kind = "errstr"
          /\ pool_results[j].kind = "text"

\* the empty batch has returned
C13_EmptyBatch == pool_pc = "returned" /\ pool_prompt_list = <<>>

\* a batch of the largest size in which every call raised has returned
C13_AllFail ==
    /\ pool_pc = "returned"
    /\ Len(pool_prompt_list) = MaxBatch
    /\ \A i \in 1..MaxBatch : call_raises[i]

\* iteration 0 returned because the Query Generator gave no query
NoQueriesAtStart ==
    /\ return_log # <<>>
    /\ return_log[1].iteration = 0
    /\ return_log[1].reason = "no_queries"

C15_ResultNeverAbsent ==
    /\ \A i \in 1..Len(return_log) : ~return_log[i].docs.isNone
    /\ pc # "stopped"

\* the state in which the report stage starts is one a run reaches
ReportEntry == \E p \in PassageIds, ok \in BOOLEAN : AfterSingleIteration(p, ok)

\* the report stage is over
ReportEnded == report_pc \in {"failed_report", "done"}

C17_ReportStoredOnSuccess ==
    (/\ ReportEnded
     /\ final_docs.rows # <<>>
     /\ provider_answer.kind = "text"
     /\ strip(provider_answer.text) # "") =>
        /\ report_pc = "done"
        /\ session_state =
              [stored |-> TRUE, final_report |-> provider_answer.text,
               final_docs |-> final_docs,
               search_queries |-> previous_queries,
               search_results |-> previous_chunk_ids,
               relevant_doc_ids |-> previous_doc_ids]

\* the requested model is on the large-context allowlist
Allowlisted == Contains("google/gemini-2.5", model_id)

\* the model id has been selected
Selected == report_pc \notin {"idle", "create_final_report"}

\* C18: for a requested model outside the allowlist, the effective model
\* is the fallback id when the prompt's token count exceeds the ceiling and
\* the requested id when the count is at or under the ceiling.
C18_OutsideAllowlist ==
    (Selected /\ ~Allowlisted) =>
        effective_model_id =
            IF token_count > fallback_token_limit THEN fallback ELSE model_id

\* a model outside the allowlist, other than the fallback, was kept for a
\* prompt that is exactly at the ceiling
C18_Witness ==
    /\ Selected
    /\ ~Allowlisted
    /\ token_count = fallback_token_limit
    /\ fallback # model_id
    /\ effective_model_id = model_id

\* a model outside the allowlist was replaced for a prompt over the ceiling
C18_WitnessOver ==
    /\ Selected
    /\ ~Allowlisted
    /\ token_count > fallback_token_limit
    /\ fallback # model_id
    /\ effective_model_id = fallback

\* C19: for a requested model on the allowlist the effective model is the
\* requested id for every prompt, also over the ceiling; the fallback id
\* replaces the requested one only when the model is outside the allowlist
\* and the prompt is over the ceiling.
C19_AllowlistedKept ==
    Selected =>
        /\ Allowlisted => effective_model_id = model_id
        /\ effective_model_id # model_id =>
              ~Allowlisted /\ token_count > fallback_token_limit

\* the verdict of a relevance answer: true, false, or unknown (the call
\* raised, the response is empty or unparsable, the relevance field is null,
\* missing or no recognised boolean)
Verdict(answer) ==
    IF answer.kind \notin {"json", "fenced"} THEN "unknown"
    ELSE IF answer.relevance \in {PyTrue, PyStr("yes")} THEN "true"
    ELSE IF answer.relevance = PyFalse THEN "false"
    ELSE "unknown"

\* C20: the relevant document ids of an iteration are exactly the distinct
\* owning document ids of the surviving passages whose verdict is true,
\* minus the ids already in seen_document_ids; a passage whose verdict is
\* false or unknown contributes no document id, and no passage is ever
\* submitted to the Relevance Filter a second time in the run.
C20_RelevantIdsFromTrueVerdicts ==
    [][pc = "check_relevance" =>
          LET owners == {search_results[i].identifier :
                            i \in {j \in 1..Len(search_results) :
                                      Verdict(relevance_answers'[j]) = "true"}}
          IN /\ Len(relevance_answers') = Len(search_results)
             /\ Range(relevant_doc_ids') = owners \ Range(previous_doc_ids)
             /\ NoDup(relevant_doc_ids')
             /\ NoDup([i \in 1..Len(filter_log') |-> filter_log'[i].uuid])]_vars

\* in a later iteration, with documents already seen, two passages were
\* filtered: one with verdict true, whose document is new and is taken, and
\* one with an unknown verdict, whose document is not taken
C20_Witness ==
    /\ pc = "analyze_documents"
    /\ loop_idx >= 1
    /\ previous_doc_ids # relevant_doc_ids
    /\ \E i, j \in 1..Len(search_results) :
          /\ Verdict(relevance_answers[i]) = "true"
          /\ search_results[i].identifier \in Range(relevant_doc_ids)
          /\ Verdict(relevance_answers[j]) = "unknown"
          /\ search_results[j].identifier \notin Range(relevant_doc_ids)

\* the exceptions a stage raises because of what a structured response held
RaisedByResponse == {"TypeError: join"}

\* C21: a structured response that cannot be parsed or does not conform to its
\* schema is never raised as an error by the Query Generator, the Relevance
\* Filter or the Reflection Gate; after an unparsable or empty reflection
\* response the next iteration makes its Query Generator call without raising.
C21_ParseFailuresFlowAsData ==
    exception \notin RaisedByResponse

\* a text that holds one of the JSON documents somewhere
HasPayload(text) == \E i \in 1..Len(text) : text[i] \in Payloads

\* C22: for every input (no response, an empty one, one that is not a str,
\* malformed text, a fenced block with invalid contents, valid JSON) the
\* parser returns the parsed value or the failure marker and never raises;
\* malformed text always gives the failure marker.
C22_ParserNeverRaises ==
    /\ parse_pc # "raised"
    /\ parse_pc = "returned" =>
          /\ \/ parse_result = ParseFailure
             \/ /\ parse_result.ok
                /\ parse_result.value \in Payloads
                /\ \E i \in 1..Len(parse_input.text) :
                      parse_input.text[i] = parse_result.value
          /\ parse_input.t # "str" => parse_result = ParseFailure
          /\ ~HasPayload(parse_input.text) => parse_result = ParseFailure
          /\ \A j \in Payloads :
                (parse_input.t = "str" /\ strip_text(parse_input.text) = << j >>)
                   => parse_result = Parsed(j)

\* C23: a JSON payload parses to the same result directly and wrapped in a
\* fenced code block, whatever tag the fence carries and whatever text
\* surrounds it.
C23_FencedParsesAsDirect ==
    (parse_pc = "returned" /\ wrapped # NotWrapped)
       => parse_result = Parsed(json_loads(<< wrapped.payload >>).value)

\* the strings boolean normalisation reads as true and as false
TrueStrings == {"true", "True", "TRUE", "1", "yes", "Yes", "YES"}
FalseStrings == {"false", "False", "FALSE", "0", "no", "No", "NO"}

\* the normalised reading of a boolean-like field
Normal(value) ==
    IF value = PyTrue \/ (value.t = "str" /\ value.v \in TrueStrings) THEN "true"
    ELSE IF value = PyFalse \/ (value.t = "str" /\ value.v \in FalseStrings)
         THEN "false"
    ELSE "unknown"

\* C24: boolean normalisation reads "true", "1", "yes" as true and "false",
\* "0", "no" as false, in any case, and everything else as unknown; the same
\* normalisation decides the relevance field of the Relevance Filter and the
\* finished field of the Reflection Gate.
C24_SameNormalisation ==
    /\ relevance_answers # <<>> =>
          LET kept == {i \in 1..Len(search_results) :
                          /\ relevance_answers[i].kind \in ParsableKinds
                          /\ Normal(relevance_answers[i].relevance) = "true"}
          IN {relevance_checks[i].uuid : i \in 1..Len(relevance_checks)}
                = {search_results[i].uuid : i \in kept}
    /\ (pc = "loop_check" /\ LastReturn("reflected")
            /\ last_reflection.kind \in ParsableKinds)
          => (Truthy(finished) <=> Normal(last_reflection.finished) = "true")

\* C25: for every model response the Query Generator returns between 0 and
\* max_queries queries: no iteration appends more than max_queries queries to
\* previous_queries or hands more than max_queries queries to the search.
C25_AtMostMaxQueries ==
    /\ Len(search_queries) <= max_queries
    /\ Len(previous_queries) <= max_queries * (loop_idx + 1)

\* the exceptions that only a run without a callback can end with
RaisedByCallback == {"TypeError: not callable"}

\* C26: the progress callback is observational only: with the same stage
\* outcomes run_iteration returns the same value and leaves the same state
\* whether a callback is supplied or omitted (None, the default); so a run
\* without a callback never ends in an exception a run with one cannot have,
\* and its first iteration gets past the Query Generator like any other.
C26_CallbackObservational ==
    /\ exception \notin RaisedByCallback
    /\ (status_callback = "None" /\ pc = "raised") => exception = "RetryError"

\* C27: a provider call is attempted at most the configured number of times
\* and then gives up; in a batch the retries are per item: an item whose
\* attempts are exhausted degrades only its own index, every other item keeps
\* its result.
C27_BoundedAttemptsPerItem ==
    /\ \A f \in 1..Len(futures) :
          /\ futures[f].attempts <= tenacity_stop_attempts
          /\ (futures[f].state = "finished" /\ futures[f].outcome.kind = "error")
                => futures[f].attempts = tenacity_stop_attempts
    /\ pool_pc = "returned" =>
          \A i \in 1..Len(pool_prompt_list) :
             /\ pool_results[i].of = pool_prompt_list[i]
             /\ pool_results[i].kind = "errstr"
                   <=> (call_raises[i]
                          /\ futures[i].attempts = tenacity_stop_attempts)
             /\ pool_results[i].kind = "text" <=> ~call_raises[i]

\* a batch has returned in which one call used up its attempts and two others
\* returned their texts, one at once and one from a retry
C27_Witness ==
    /\ pool_pc = "returned"
    /\ \E i, j, k \in 1..Len(pool_prompt_list) :
          /\ pool_results[i].kind = "errstr"
          /\ futures[i].attempts = tenacity_stop_attempts
          /\ pool_results[j].kind = "text"
          /\ futures[j].attempts = 1
          /\ pool_results[k].kind = "text"
          /\ futures[k].attempts > 1

\* the Reflection Gate's call of this iteration failed after its retries
ReflectionFailed == last_reflection.kind = "error"

\* C28: a Reflection Gate call that still fails after its retries surfaces as
\* a failure of the run: run_iteration returns neither finished = true nor
\* finished = false for that iteration, no further iteration is started, the
\* reflection is not called again and the report stage is never entered.
C28_ReflectionFailureEndsRun ==
    ReflectionFailed =>
        /\ pc = "raised"
        /\ exception = "RetryError"
        /\ Last(call_log) = [stage |-> "reflect_task_status", iteration |-> loop_idx]
        /\ \A i \in 1..Len(return_log) : return_log[i].iteration < loop_idx
        /\ Cardinality({c \in 1..Len(call_log) :
              call_log[c] = [stage |-> "reflect_task_status",
                             iteration |-> loop_idx]}) = 1
        /\ exit_branch = "none"
        /\ report_pc = "idle"
        /\ ~ENABLED Next

\* the reflection of a later iteration failed, after documents were kept
C28_Witness ==
    /\ ReflectionFailed
    /\ loop_idx >= 1
    /\ loop_idx < max_iterations - 1
    /\ ~final_docs.isNone

\* an initialisation of the imports failed
StartupFailed == startup_pc = "failed"

\* C29: a fatal configuration error (no provider credentials, no reachable
\* search index) aborts before any iteration starts: no Query Generator,
\* search, relevance, analysis or reflection call is made in such a process,
\* and the initialisation that failed is not tried again.
C29_ConfigurationErrorAbortsEarly ==
    /\ (~api_key_set \/ ~index_reachable) =>
          /\ call_log = <<>>
          /\ pc = "loop_head"
          /\ startup_pc # "done"
          /\ report_pc = "idle"
    /\ NoDup(startup_log)
    /\ StartupFailed =>
          /\ exception \in {"RuntimeError", "WeaviateStartUpError", "ValueError"}
          /\ ~ENABLED Next

\* the credentials were there but the search index could not be reached
C29_Witness ==
    /\ StartupFailed
    /\ api_key_set
    /\ ~index_reachable
    /\ startup_log = << "config", "search" >>

\* a worker thread is executing a call, or a submitted call waits for one
WorkersActive == running # {} \/ work_queue # <<>>

\* the prompts of the batch the stage at pc runs
StagePrompts ==
    IF pc = "check_relevance" THEN relevance_prompts(search_results)
    ELSE analysis_prompts(relevant_doc_ids, docs)

\* C30: the workflow state is never accessed concurrently: the steps of the
\* pool and of its worker threads leave every field of it alone, the state
\* changes only while no worker is active, and a batch belongs to the one
\* stage of the one iteration in progress; no stage and no iteration begins
\* while a batch is open.
C30_StateNeverSharedWithWorkers ==
    /\ [](pool_pc # "idle" =>
            /\ pc \in {"check_relevance", "analyze_documents"}
            /\ pool_prompt_list = StagePrompts
            /\ Len(futures) <= Len(pool_prompt_list))
    /\ [](WorkersActive => pool_pc \in {"submit", "as_completed"})
    /\ [][/\ workflow_vars' # workflow_vars =>
                (~WorkersActive /\ pool_pc \in {"idle", "returned"})
          /\ (pool_vars' # pool_vars /\ pool_pc' # "idle") =>
                workflow_vars' = workflow_vars
          /\ (pc' # pc \/ loop_idx' # loop_idx) => pool_pc' = "idle"]_vars

\* in the second iteration of a run that has kept a document, the relevance
\* batch over two passages ran on two worker threads at once and has returned
C30_Witness ==
    /\ pc = "check_relevance"
    /\ loop_idx = 1
    /\ ~final_docs.isNone
    /\ pool_pc = "returned"
    /\ max_workers = 2
    /\ Len(pool_prompt_list) = 2
    /\ completion_order = << 2, 1 >>

\* the order of the stages of one iteration
StageOrder == << "run_iteration", "create_queries", "execute_searches",
                 "check_relevance", "analyze_documents", "reflect_task_status" >>

\* the stages logged for iteration k, in the order they were invoked
StagesOf(k) ==
    LET InK(entry) == entry.iteration = k
        entries == SelectSeq(call_log, InK)
    IN [i \in 1..Len(entries) |-> entries[i].stage]

\* C31: within one iteration the stages run in the order query generation,
\* search, relevance filtering, document analysis, reflection, each started
\* only after the previous one returned a non-empty output: search is never
\* invoked with zero queries, the filter never with zero passages, the
\* analyzer never with zero document ids, and reflection never before the
\* analyses of the iteration were appended.
C31_StagesInOrderAndGated ==
    /\ \A k \in 0..loop_idx : IsPrefix(StagesOf(k), StageOrder)
    /\ pc = "execute_searches" => search_queries # <<>>
    /\ pc = "check_relevance" => search_results # <<>>
    /\ pc = "analyze_documents" => relevant_doc_ids # <<>>
    /\ pc = "reflect" =>
          /\ Last(StagesOf(loop_idx)) = "analyze_documents"
          /\ Len(previous_analysis_results) >= Len(analysis_results)
          /\ SubSeq(previous_analysis_results,
                    Len(previous_analysis_results) - Len(analysis_results) + 1,
                    Len(previous_analysis_results)) = analysis_results

\* the second iteration ran all five stages and its reflection saw analyses
C31_Witness ==
    /\ loop_idx = 1
    /\ pc = "loop_check"
    /\ StagesOf(1) = StageOrder
    /\ analysis_results # <<>>
    /\ LastReturn("reflected")

\* the futures whose call is executing in a worker thread
Executing == {f \in 1..Len(futures) : futures[f].state = "running"}

\* C32: call_function_in_parallel invokes the call function exactly once for
\* each of the N inputs and never has more than max_workers of those
\* invocations executing at the same moment.
C32_OncePerInputWithinWidth ==
    /\ Cardinality(Executing) <= max_workers
    /\ running = Executing
    /\ Len(futures) <= Len(pool_prompt_list)
    /\ \A f \in 1..Len(futures) :
          /\ future_to_index[f] = f
          /\ futures[f].prompt = pool_prompt_list[f]
          /\ futures[f].calls = IF futures[f].state = "pending" THEN 0 ELSE 1
    /\ pool_pc = "returned" =>
          /\ Len(futures) = Len(pool_prompt_list)
          /\ \A f \in 1..Len(futures) : futures[f].calls = 1

\* a batch with more inputs than threads: every thread of the pool is
\* executing a call while another call waits in the queue
C32_Witness ==
    /\ Len(pool_prompt_list) > max_workers
    /\ max_workers >= 2
    /\ Cardinality(Executing) = max_workers
    /\ work_queue # <<>>
    /\ pool_pc = "as_completed"

\* every analysis produced so far, in production order: the analysis the
\* i-th document sent to the analyzer got, as accumulated_documents holds it
Produced == [i \in 1..Len(analysis_log) |-> final_docs.rows[i].analysis]

\* C33: the Reflection Gate call of iteration k receives the ordered
\* concatenation of every analysis produced in iterations 0..k, earlier
\* iterations first, not only those of iteration k; starved iterations
\* contribute nothing and remove nothing.
C33_ReflectionSeesAllAnalyses ==
    last_reflection.kind # "none" =>
        /\ Len(final_docs.rows) = Len(analysis_log)
        /\ \A i \in 1..Len(analysis_log) :
              /\ final_docs.rows[i].identifier = analysis_log[i].identifier
              /\ analysis_log[i].iteration <= loop_idx
              /\ \A j \in 1..(i - 1) :
                    analysis_log[j].iteration <= analysis_log[i].iteration
        /\ last_reflection.research_results = join("NLNL", Produced)

\* the reflection of iteration 2 received the analysis of iteration 0 and the
\* analysis of iteration 2, iteration 1 having starved
C33_Witness ==
    /\ loop_idx = 2
    /\ last_reflection.kind = "json"
    /\ Len(return_log) >= 2
    /\ return_log[2].reason \in StarveReasons
    /\ Len(analysis_log) = 2
    /\ analysis_log[1].iteration = 0
    /\ analysis_log[2].iteration = 2
    /\ Len(last_reflection.research_results) = 3

\* the calls of the Reflection Gate that returned
ReflectedReturns == {i \in 1..Len(return_log) : return_log[i].reason = "reflected"}

\* every Reflection Gate call that returned appended exactly one entry
OneEntryPerReflection ==
    Len(previous_considerations) = Cardinality(ReflectedReturns)

\* the queries and considerations of the iterations before the current one
EarlierQueries ==
    SubSeq(previous_queries, 1, Len(previous_queries) - Len(search_queries))

EarlierConsiderations ==
    IF last_reflection.kind \in {"none", "error"}
    THEN previous_considerations
    ELSE SubSeq(previous_considerations, 1, Len(previous_considerations) - 1)

\* the Query Generator call of this iteration got no history in iteration 0
\* and the whole earlier history in every later iteration
HistoryReceived ==
    (query_history.called /\ pc # "loop_head") =>
        IF loop_idx = 0
        THEN query_history = [NoHistory EXCEPT !.called = TRUE]
        ELSE /\ query_history.has_history
             /\ query_history.previous_queries = join("NL", EarlierQueries)
             /\ query_history.considerations = join("NL", EarlierConsiderations)

\* C34: each Reflection Gate call appends exactly one entry, its reflection
\* text, to considerations, and the Query Generator call of every iteration
\* k >= 1 receives all queries issued and all considerations recorded in
\* iterations 0..k-1, while the call of iteration 0 receives no history.
C34_HistoryFeedsQueryGenerator ==
    /\ OneEntryPerReflection
    /\ \A i \in 1..Len(previous_considerations) :
          previous_considerations[i].t = "str"
    /\ exception # "TypeError: join"
    /\ HistoryReceived

\* check_relevance, resp. analyze_documents, goes on with the results of its
\* batch
RelevanceBatchReturns ==
    pc = "check_relevance" /\ pool_pc = "returned" /\ pool_pc' = "idle"

AnalysisBatchReturns ==
    pc = "analyze_documents" /\ pool_pc = "returned" /\ pool_pc' = "idle"

\* C35: the run is deterministic in its external responses: whatever order
\* the concurrent calls of a relevance or analysis batch complete in and
\* however many threads run them, the state a stage leaves is the function of
\* the state it found and of the response each input's call got, so two runs
\* with the same responses end in the same queries, passage ids, document
\* ids, accumulated documents with analyses and considerations.
C35_DeterministicInResponses ==
    [][/\ RelevanceBatchReturns =>
             /\ \A i \in 1..Len(search_results) :
                   relevance_answers'[i].kind = "error" <=> call_raises[i]
             /\ LET relevant == check_relevance(search_results, relevance_answers')
                    ids == unique([i \in 1..Len(relevant) |-> relevant[i].identifier])
                    fresh == new_doc_ids(ids, previous_doc_ids)
                IN /\ relevant_doc_ids' = fresh
                   /\ previous_doc_ids' = previous_doc_ids \o fresh
                   /\ pc' = IF fresh = <<>> THEN "loop_check" ELSE "analyze_documents"
             /\ UNCHANGED << previous_queries, previous_chunk_ids,
                             previous_considerations, previous_analysis_results,
                             final_docs >>
       /\ AnalysisBatchReturns =>
             LET rows == isin_rows(docs, relevant_doc_ids)
                 results == [i \in 1..Len(rows) |->
                               [kind |-> IF call_raises[i] THEN "errstr" ELSE "text",
                                of |-> rows[i].text]]
             IN /\ analysis_results' = results
                /\ previous_analysis_results' = previous_analysis_results \o results
                /\ final_docs'.rows =
                      (IF loop_idx = 0 THEN <<>> ELSE final_docs.rows)
                         \o with_analysis(rows, results)
                /\ UNCHANGED << previous_queries, previous_chunk_ids,
                                previous_doc_ids, previous_considerations >>
       /\ (pool_pc # "idle" /\ pool_pc' # "idle") =>
             UNCHANGED << previous_queries, previous_chunk_ids, previous_doc_ids,
                          previous_considerations, previous_analysis_results,
                          final_docs, finished, pc, loop_idx >>]_vars

\* an analysis batch over two documents has returned whose second call
\* finished first and whose first call failed
C35_Witness ==
    /\ pc = "analyze_documents"
    /\ pool_pc = "returned"
    /\ Len(pool_prompt_list) = 2
    /\ completion_order = << 2, 1 >>
    /\ call_raises = << TRUE, FALSE >>

\* no call of run_iteration is in progress
BetweenIterations ==
    pc \in {"loop_head", "loop_check", "after_loop", "stopped", "report"}

\* C36: after any sequence of iterations the document ids of
\* accumulated_documents are the seen document ids that exist in the
\* document store, there are as many accumulated rows as accumulated
\* analyses, the j-th analysis belonging to the j-th row; a relevant id that
\* is absent from the store is recorded as seen but gives no row and no
\* analysis.
C36_AccumulatedMatchesSeenStored ==
    BetweenIterations =>
        /\ Range(AccumulatedIds) = Range(previous_doc_ids) \cap DocIds
        /\ Len(final_docs.rows) = Len(previous_analysis_results)
        /\ \A j \in 1..Len(final_docs.rows) :
              /\ final_docs.rows[j].analysis = previous_analysis_results[j]
              /\ previous_analysis_results[j].of = DocText(AccumulatedIds[j])
        /\ \A i \in 1..Len(previous_doc_ids) :
              previous_doc_ids[i] \notin DocIds =>
                 /\ previous_doc_ids[i] \notin Range(AccumulatedIds)
                 /\ \A j \in 1..Len(previous_analysis_results) :
                       previous_analysis_results[j].of # DocText(previous_doc_ids[i])

\* two iterations have returned; an id absent from the store and a stored id
\* are both seen and one row with its analysis is accumulated
C36_Witness ==
    /\ BetweenIterations
    /\ Len(return_log) >= 2
    /\ \E i \in 1..Len(previous_doc_ids) : previous_doc_ids[i] \notin DocIds
    /\ \E i \in 1..Len(previous_doc_ids) : previous_doc_ids[i] \in DocIds
    /\ Len(final_docs.rows) = 1
    /\ Len(previous_analysis_results) = 1

\* the analyses whose Document Analyzer call failed after its retries
FailedAnalyses ==
    {j \in 1..Len(previous_analysis_results) :
        previous_analysis_results[j].kind = "errstr"}

\* how often document d was given to the analyzer
TimesAnalysed(d) ==
    Cardinality({k \in 1..Len(analysis_log) : analysis_log[k].identifier = d})

\* C37: when a Document Analyzer call fails after its retries, the document
\* still enters accumulated_documents with the inline error value as its
\* analysis, that error value is part of the text given to the Reflection
\* Gate and to the report, and the document is marked seen, so its analysis
\* is never attempted again in the run.
C37_FailedAnalysisIsKept ==
    \A j \in FailedAnalyses :
        /\ (pc \in {"reflect", "raised"} \/ BetweenIterations) =>
              /\ j <= Len(final_docs.rows)
              /\ final_docs.rows[j].analysis = previous_analysis_results[j]
              /\ final_docs.rows[j].text = previous_analysis_results[j].of
        /\ last_reflection.kind # "none" =>
              /\ 2 * j - 1 <= Len(last_reflection.research_results)
              /\ last_reflection.research_results[2 * j - 1]
                    = previous_analysis_results[j]
        /\ pc = "report" =>
              /\ 2 * j - 1 <= Len(research_results_text(final_docs.rows))
              /\ research_results_text(final_docs.rows)[2 * j - 1].analysis
                    = previous_analysis_results[j]
        /\ j <= Len(analysis_log)
        /\ previous_analysis_results[j].of = DocText(analysis_log[j].identifier)
        /\ analysis_log[j].identifier \in Range(previous_doc_ids)
        /\ TimesAnalysed(analysis_log[j].identifier) = 1

\* the report is reached with a document whose analysis failed in iteration
\* 0; a later iteration retrieved another passage of that document, found
\* it relevant and did not analyse the document again
C37_Witness ==
    /\ pc = "report"
    /\ 1 \in FailedAnalyses
    /\ analysis_log[1].iteration = 0
    /\ return_log[1].reason = "reflected"
    /\ \E i \in 1..Len(filter_log) :
          /\ filter_log[i].iteration >= 1
          /\ filter_log[i].identifier = analysis_log[1].identifier
    /\ \E i \in 1..Len(return_log) : return_log[i].reason = "no_relevant"

\* run_iteration has just returned for this reason
JustReturned(reason) == pc = "loop_check" /\ LastReturn(reason)

\* the fields an iteration left as it found them
Kept(fields) == \A f \in fields : IterationState[f] = entry_state[f]

\* C38: a starved iteration changes only the bookkeeping of the stages it
\* ran: starving at query generation changes no field, starving at search
\* only seen_queries, starving at relevance filtering only seen_queries and
\* seen_chunk_ids; seen_document_ids, accumulated_documents, the accumulated
\* analyses and considerations are unchanged in all three cases.
C38_StarvedIterationFrame ==
    /\ JustReturned("no_queries") =>
          Kept({"previous_queries", "previous_chunk_ids", "previous_doc_ids",
                "previous_considerations", "previous_analysis_results",
                "final_docs"})
    /\ JustReturned("no_results") =>
          Kept({"previous_chunk_ids", "previous_doc_ids",
                "previous_considerations", "previous_analysis_results",
                "final_docs"})
    /\ JustReturned("no_relevant") =>
          Kept({"previous_doc_ids", "previous_considerations",
                "previous_analysis_results", "final_docs"})

\* iteration 1 starved at relevance filtering after iteration 0 had kept a
\* document: its queries and passage ids are recorded, nothing else changed
C38_Witness ==
    /\ JustReturned("no_relevant")
    /\ loop_idx = 1
    /\ final_docs.rows # <<>>
    /\ previous_considerations # <<>>
    /\ Len(previous_queries) > Len(entry_state.previous_queries)
    /\ Len(previous_chunk_ids) > Len(entry_state.previous_chunk_ids)

\* chunk_text has returned
ChunkEnded == chunk_pc \in {"returned", "error"}

\* C39: chunk_text terminates for every document: for every list of sentence
\* token counts, sentences at or above max_token_count included, and every
\* overlap_tokens, the chunking loop ends after finitely many steps, because
\* the start index of the current chunk strictly increases every time a chunk
\* is closed, and it returns the chunk list or the single error entry.
C39_ChunkingTerminates ==
    /\ <>ChunkEnded
    /\ [][chunk_pc = "restart" =>
             current_chunk_start' > current_chunk_start]_vars
    /\ [](/\ chunk_pc = "returned" => chunk_result = ChunkList(chunks)
          /\ chunk_pc = "error" => chunk_result = ErrorEntry
          /\ current_chunk_start <= Len(sent_tokens))

\* a document with a sentence at max_token_count was chunked into three or
\* more chunks, two of which share a sentence
C39_Witness ==
    /\ chunk_pc = "returned"
    /\ \E i \in 1..Len(sent_tokens) : sent_tokens[i] >= max_token_count
    /\ Len(chunks) >= 3
    /\ \E a, b \in 1..Len(chunks) :
          a # b /\ Range(chunks[a]) \cap Range(chunks[b]) # {}

====
